---- MODULE Spec2Model ----
(***************************************************************************)
(* Model of the input-sanitisation and path-confinement core of the        *)
(* cross-repo plugin: safeResolvePath over a filesystem with directories,  *)
(* files and symlinks, the read that readFile issues on its result,        *)
(* isValidRepoIdentifier, sanitizeGitOutput over character sequences, and  *)
(* execute with the operations it dispatches to, the command lines they    *)
(* run and the clonedRepos registry.                                       *)
(*                                                                         *)
(* A path is the sequence of its segments (<<>> is "/"); PathStr renders   *)
(* it as the string of characters the code compares with startsWith.       *)
(***************************************************************************)
EXTENDS Integers, Sequences, FiniteSets

VARIABLES
    fs,             \* the filesystem: slot -> node
    basePath,       \* argument basePath (absolute, as getClonePath builds it)
    relativePath,   \* argument relativePath: [abs, segs]
    pc,             \* position inside safeResolvePath / its caller
    normalizedBase, \* const normalizedBase
    fullPath,       \* const fullPath
    realBase,       \* let realBase
    checkPath,      \* let checkPath
    result,         \* the value returned: [some, path]
    lastErr,        \* outcome of the latest realpathSync call
    fsTouched,      \* TRUE once realpathSync has been called
    attacks,        \* number of changes another process made to the filesystem
    readLoc,        \* where the read issued by readFile landed
    value,          \* argument of isValidRepoIdentifier
    verdict,        \* its result: "idle" before the call, then "true"/"false"
    output,         \* argument of sanitizeGitOutput
    scrubbed,       \* sanitizeGitOutput(output)
    rescrubbed,     \* sanitizeGitOutput(sanitizeGitOutput(output))
    scrubPc,        \* number of applications so far: "idle", "once", "twice"
    envPlatform,    \* process.env.CROSS_REPO_PLATFORM: "unset", "github", "gitlab"
    cachedPlatform, \* let cachedPlatform: undefined, null or a PlatformInfo
    clonedRepos,    \* const clonedRepos: the keys of the Map
    call,           \* the latest call of execute: its arguments and the state it met
    commands,       \* the bash command lines that call handed to run
    tokenAsked,     \* TRUE when that call ran getTargetRepoToken
    reply,          \* what that call gave back: a JSON string or an exception
    remoteUrl,      \* argument of detectPlatformFromRemote
    detected,       \* what it returned: idle before the call, then null or a platform and host
    processEnv,     \* process.env: CROSS_REPO_PLATFORM, GITLAB_HOST, GITHUB_HOST
    cachedInfo,     \* let cachedPlatform, with its host
    options,        \* the options of the plugin function that ran last
    detectCall,     \* the latest call: its name, and the cache and environment it met
    detectResult,   \* what detectCurrentRepoPlatform returned last
    remoteAsked,    \* TRUE when that call ran git remote get-url origin
    authEnv,        \* process.env and the terminal, as token acquisition reads them
    cliCache,       \* let ghCliAvailable, glabCliAvailable: null, true or false
    authCall,       \* the latest call of getTargetRepoToken: platform, and what OIDC and the CLI answered
    tokenResult,    \* what it returned: a token and where from, or an error
    tripleA,        \* sessionID, owner and repo of a clone that succeeded
    tripleB,        \* sessionID, owner and repo of a later operation
    keyA,           \* the key the clone registered
    keyB,           \* the key the operation looks up
    found,          \* idle before the lookup, then whether clonedRepos.get found the clone
    cloneMap,       \* const clonedRepos: key -> path and defaultBranch of the entry
    disk,           \* the clone directories: path -> the repository checked out there
    inv,            \* the clone invocations under way: one per caller, with its position in cloneRepo
    cloneRuns,      \* key -> number of git clone runs for it that exited with 0
    rmAfterSet      \* TRUE once rm -rf ran on the directory of a key that was in clonedRepos

pathVars == <<fs, basePath, relativePath, pc, normalizedBase, fullPath, realBase,
              checkPath, result, lastErr, fsTouched, attacks, readLoc>>
identVars == <<value, verdict>>
scrubVars == <<output, scrubbed, rescrubbed, scrubPc>>
execVars == <<envPlatform, cachedPlatform, clonedRepos, call, commands,
              tokenAsked, reply>>
remoteVars == <<remoteUrl, detected>>
platformVars == <<processEnv, cachedInfo, options, detectCall, detectResult, remoteAsked>>
authVars == <<authEnv, cliCache, authCall, tokenResult>>
keyVars == <<tripleA, tripleB, keyA, keyB, found>>
cloneVars == <<cloneMap, disk, inv, cloneRuns, rmAfterSet>>
vars == <<pathVars,
          identVars,
          scrubVars,
          execVars,
          remoteVars,
          platformVars,
          authVars,
          keyVars,
          cloneVars>>

\* what a step of safeResolvePath, resp. of isValidRepoIdentifier, leaves alone
offPathVars == <<identVars, scrubVars, execVars,
    remoteVars,
    platformVars,
    authVars,
    keyVars,
    cloneVars>>
offIdentVars == <<pathVars, scrubVars, execVars,
    remoteVars,
    platformVars,
    authVars,
    keyVars,
    cloneVars>>
offScrubVars == <<pathVars, identVars, execVars,
    remoteVars,
    platformVars,
    authVars,
    keyVars,
    cloneVars>>
offExecVars == <<pathVars, identVars, scrubVars,
    remoteVars,
    platformVars,
    authVars,
    keyVars,
    cloneVars>>
offFileVars == <<identVars, scrubVars,
    remoteVars,
    platformVars,
    authVars,
    keyVars,
    cloneVars>>
offRemoteVars == <<pathVars, identVars, scrubVars, execVars,
    platformVars,
    authVars,
    keyVars,
    cloneVars>>
offPlatformVars == <<pathVars, identVars, scrubVars, execVars, remoteVars,
    authVars,
    keyVars,
    cloneVars>>
offAuthVars == <<pathVars, identVars, scrubVars, execVars, remoteVars, platformVars,
    keyVars,
    cloneVars>>
offKeyVars == <<pathVars, identVars, scrubVars, execVars, remoteVars, platformVars, authVars,
    cloneVars>>
offCloneVars == <<pathVars, identVars, scrubVars, execVars, remoteVars, platformVars, authVars, keyVars>>

----------------------------------------------------------------------------
(* Bounds *)

\* longest relativePath, in segments
MaxSegs == 3
\* changes another process may make during one call
MaxAttacks == 1
\* symlinks followed by one resolution before it fails with ELOOP
MaxLinks == 3
\* identifiers tried: a head of at most MaxHead characters, then up to MaxPad
\* letters
MaxHead == 2
MaxPad == 101

----------------------------------------------------------------------------
(* Strings and paths *)

StartsWith(s, t) ==
    /\ Len(t) <= Len(s)
    /\ SubSeq(s, 1, Len(t)) = t

\* the characters of one path segment
SegChars(seg) ==
    CASE seg = "bx" -> <<"b", "x">>
      [] seg = ".." -> <<".", ".">>
      [] OTHER      -> <<seg>>

RECURSIVE PathStr(_)
PathStr(p) ==
    IF p = <<>> THEN <<"/">>
    ELSE IF Len(p) = 1 THEN <<"/">> \o SegChars(p[1])
    ELSE PathStr(SubSeq(p, 1, Len(p) - 1)) \o <<"/">> \o SegChars(p[Len(p)])

\* path.resolve(from, rel): an absolute rel restarts at the root; "." and empty
\* segments are dropped, ".." removes the last segment (the root has no parent)
RECURSIVE Normalize(_, _)
Normalize(acc, segs) ==
    IF segs = <<>> THEN acc
    ELSE LET s == Head(segs) IN
         IF s = "." \/ s = "" THEN Normalize(acc, Tail(segs))
         ELSE IF s = ".." THEN
              Normalize(IF acc = <<>> THEN <<>> ELSE SubSeq(acc, 1, Len(acc) - 1),
                        Tail(segs))
         ELSE Normalize(Append(acc, s), Tail(segs))

resolve(from, rel) ==
    Normalize(IF rel.abs THEN <<>> ELSE from, rel.segs)

Parent(p) == resolve(p, [abs |-> FALSE, segs |-> <<"..">>])

\* fullPath.startsWith(base + "/") || fullPath === base
InsideStr(p, base) ==
    \/ StartsWith(PathStr(p), PathStr(base) \o <<"/">>)
    \/ p = base

----------------------------------------------------------------------------
(* The filesystem *)

Root == <<>>
BaseDir == <<"b">>
Outside == <<"bx">>
OutsideFile == <<"bx", "f">>
BaseLink == <<"s">>
InnerA == <<"b", "a">>
InnerF == <<"b", "a", "f">>

Slots == {Root, BaseDir, Outside, OutsideFile, BaseLink, InnerA, InnerF}

Dir == [kind |-> "dir", target |-> <<>>]
NoAccessDir == [kind |-> "noacc", target |-> <<>>]
File == [kind |-> "file", target |-> <<>>]
Absent == [kind |-> "none", target |-> <<>>]
Link(t) == [kind |-> "link", target |-> t]

\* where a symlink may point: outside (existing directory, existing file,
\* missing), the base, inside (existing or not), itself
Targets == {Outside, OutsideFile, <<"bx", "n">>, BaseDir, InnerA, <<"b", "n">>}

Lookup(f, p) == IF p \in Slots THEN f[p] ELSE Absent

\* The filesystems a call may start on.  "/", "/b", "/bx" are directories and
\* "/s" is a symlink to "/b"; "/bx/f" is a file or a symlink back to "/b";
\* "/b/a" is absent, a file, a directory (searchable or not) or a symlink, and
\* "/b/a/f" exists only inside a directory "/b/a".
Skeleton ==
    [p \in Slots |->
        CASE p = BaseLink -> Link(BaseDir)
          [] p = OutsideFile -> File
          [] p \in {InnerA, InnerF} -> Absent
          [] OTHER -> Dir]

Links == {Link(t) : t \in Targets}

\* an entry exists only inside a directory
WellFormed(f) ==
    f[InnerA].kind \notin {"dir", "noacc"} => f[InnerF] = Absent

FileSystems ==
    {f \in {[Skeleton EXCEPT ![InnerA] = a, ![InnerF] = c, ![OutsideFile] = o] :
                a \in {Absent, File, Dir, NoAccessDir} \cup Links,
                c \in {Absent, File} \cup Links,
                o \in {File, Link(BaseDir)}} :
        WellFormed(f)}

\* fs.realpathSync(p) for a normalized absolute p: every component is looked up
\* in the directory resolved so far, a symlink is replaced by its target and
\* the resolution restarts; the outcome is the real path or an errno code.
RECURSIVE RealpathFrom(_, _, _, _)
RealpathFrom(f, cur, rest, fuel) ==
    IF rest = <<>> THEN [err |-> "OK", path |-> cur]
    ELSE IF Lookup(f, cur).kind = "file" THEN [err |-> "ENOTDIR", path |-> <<>>]
    ELSE IF Lookup(f, cur).kind = "noacc" THEN [err |-> "EACCES", path |-> <<>>]
    ELSE LET next == Append(cur, Head(rest))
             node == Lookup(f, next)
         IN  IF node.kind = "none" THEN [err |-> "ENOENT", path |-> <<>>]
             ELSE IF node.kind = "link" THEN
                  IF fuel = 0 THEN [err |-> "ELOOP", path |-> <<>>]
                  ELSE RealpathFrom(f, Root, node.target \o Tail(rest), fuel - 1)
             ELSE RealpathFrom(f, next, Tail(rest), fuel)

realpathSync(f, p) == RealpathFrom(f, Root, p, MaxLinks)

----------------------------------------------------------------------------
(* safeResolvePath *)

Null == [some |-> FALSE, path |-> <<>>]
Some(p) == [some |-> TRUE, path |-> p]

\* the base directories a call is made with: "/b", the symlink "/s" to it,
\* the missing "/m", and "/b/a" and "/b/a/f", which the filesystem decides
Bases == {BaseDir, BaseLink, <<"m">>, InnerA, InnerF}

SegSet == {"a", "f", "b", "bx", "..", "."}

RECURSIVE SeqsUpTo(_, _)
SeqsUpTo(S, n) ==
    IF n = 0 THEN {<<>>}
    ELSE LET shorter == SeqsUpTo(S, n - 1)
         IN  shorter \cup {Append(q, x) : q \in shorter, x \in S}

RelPaths == [abs : BOOLEAN, segs : SeqsUpTo(SegSet, MaxSegs)]

\* line 52 without the separator: "/bx" passes for a base "/b"
LexicallyInsideNoSeparator(full, nbase) ==
    StartsWith(PathStr(full), PathStr(nbase))

\* line 52: fullPath.startsWith(normalizedBase + "/") || fullPath === normalizedBase
LexicallyInside(full, nbase) == InsideStr(full, nbase)

\* lines 67 and 83 without the separator
ReallyInsideNoSeparator(real, rbase) ==
    StartsWith(PathStr(real), PathStr(rbase))

\* lines 67 and 83: realPath.startsWith(realBase + "/") || realPath === realBase
ReallyInside(real, rbase) == InsideStr(real, rbase)

\* lines 74 and 89 without the test of the code: every error is "not found"
IsNotFoundAnyError(code) == code # "OK"

\* lines 74 and 89: only ENOENT is "path doesn't exist"
IsNotFound(code) == code = "ENOENT"

\* line 80: the condition of the while loop
WalkContinues(check, nbase) ==
    check # nbase /\ StartsWith(PathStr(check), PathStr(nbase))

\* lines 57-62 with a catch that falls back to the normalized base
BaseOutcomeFallback(r, nbase) == IF r.err = "OK" THEN Some(r.path) ELSE Some(nbase)

\* lines 57-62: realBase is the resolved base, or the call ends with null
BaseOutcome(r, nbase) == IF r.err = "OK" THEN Some(r.path) ELSE Null

\* line 70 returning fullPath
ReturnForExistingLexical(real, full) == full

\* line 70: an existing path is returned as resolved, not as joined
ReturnForExisting(real, full) == real

\* line 95 returning the ancestor the walk stopped at
ReturnForNewAncestor(full, check) == check

\* line 95: a path that does not exist is returned as joined
ReturnForNew(full, check) == full

\* lines 79 and 92 resolving "." instead of "..": the walk does not ascend
NextAncestorStuck(p) == resolve(p, [abs |-> FALSE, segs |-> <<".">>])

\* lines 79 and 92: resolve(p, "..")
NextAncestor(p) == Parent(p)

PathInit ==
    /\ pc = "start"
    /\ normalizedBase = <<>>
    /\ fullPath = <<>>
    /\ realBase = <<>>
    /\ checkPath = <<>>
    /\ result = Null
    /\ lastErr = "none"
    /\ fsTouched = FALSE
    /\ attacks = 0
    /\ readLoc = Null

IdentIdle ==
    /\ value = <<>>
    /\ verdict = "idle"

ScrubIdle ==
    /\ output = <<>>
    /\ scrubbed = <<>>
    /\ rescrubbed = <<>>
    /\ scrubPc = "idle"

NoCall == [op |-> "none"]

NoReply == [kind |-> "none"]

ExecIdle ==
    /\ envPlatform = "unset"
    /\ cachedPlatform = [platform |-> "undefined", selfHosted |-> FALSE]
    /\ clonedRepos = {}
    /\ call = NoCall
    /\ commands = {}
    /\ tokenAsked = FALSE
    /\ reply = NoReply

RemoteIdle ==
    /\ remoteUrl = <<>>
    /\ detected = [platform |-> "idle", host |-> <<>>]

PlatformIdle ==
    /\ processEnv = <<>>
    /\ cachedInfo = <<>>
    /\ options = <<>>
    /\ detectCall = <<>>
    /\ detectResult = <<>>
    /\ remoteAsked = FALSE

AuthIdle ==
    /\ authEnv = <<>>
    /\ cliCache = <<>>
    /\ authCall = <<>>
    /\ tokenResult = <<>>

KeyIdle ==
    /\ tripleA = <<>>
    /\ tripleB = <<>>
    /\ keyA = <<>>
    /\ keyB = <<>>
    /\ found = "idle"

CloneIdle ==
    /\ cloneMap = <<>>
    /\ disk = <<>>
    /\ inv = <<>>
    /\ cloneRuns = <<>>
    /\ rmAfterSet = FALSE

Init ==
    /\ fs \in FileSystems
    /\ basePath \in Bases
    /\ relativePath \in RelPaths
    /\ PathInit
    /\ IdentIdle
    /\ ScrubIdle
    /\ ExecIdle
    /\ RemoteIdle
    /\ PlatformIdle
    /\ AuthIdle
    /\ KeyIdle
    /\ CloneIdle

Return(r) ==
    /\ result' = r
    /\ pc' = "done"

\* lines 48-54: the lexical check, before any filesystem access
Start ==
    /\ pc = "start"
    /\ LET nbase == resolve(Root, [abs |-> TRUE, segs |-> basePath])
           full == resolve(nbase, relativePath)
       IN  /\ normalizedBase' = nbase
           /\ fullPath' = full
           /\ IF ~LexicallyInside(full, nbase)
              THEN Return(Null)
              ELSE pc' = "base" /\ result' = result
    /\ UNCHANGED <<fs, basePath, relativePath, realBase, checkPath, lastErr,
                   fsTouched, attacks, readLoc>>
    /\ UNCHANGED offPathVars

\* lines 56-62: the base must resolve
ResolveBase ==
    /\ pc = "base"
    /\ LET r == realpathSync(fs, normalizedBase)
       IN  /\ lastErr' = r.err
           /\ fsTouched' = TRUE
           /\ IF BaseOutcome(r, normalizedBase).some
              THEN /\ realBase' = BaseOutcome(r, normalizedBase).path
                   /\ pc' = "full"
                   /\ result' = result
              ELSE realBase' = realBase /\ Return(Null)
    /\ UNCHANGED <<fs, basePath, relativePath, normalizedBase, fullPath, checkPath,
                   attacks, readLoc>>
    /\ UNCHANGED offPathVars

\* lines 64-79: the full path, when it exists
ResolveFull ==
    /\ pc = "full"
    /\ LET r == realpathSync(fs, fullPath)
       IN  /\ lastErr' = r.err
           /\ fsTouched' = TRUE
           /\ IF r.err = "OK"
              THEN /\ Return(IF ReallyInside(r.path, realBase)
                           THEN Some(ReturnForExisting(r.path, fullPath))
                           ELSE Null)
                   /\ checkPath' = checkPath
              ELSE IF ~IsNotFound(r.err)
              THEN Return(Null) /\ checkPath' = checkPath
              ELSE /\ checkPath' = NextAncestor(fullPath)
                   /\ pc' = "walk"
                   /\ result' = result
    /\ UNCHANGED <<fs, basePath, relativePath, normalizedBase, fullPath, realBase,
                   attacks, readLoc>>
    /\ UNCHANGED offPathVars

\* lines 80-95: one turn of the ancestor walk, or its end
Walk ==
    /\ pc = "walk"
    /\ IF ~WalkContinues(checkPath, normalizedBase)
       THEN /\ Return(Some(ReturnForNew(fullPath, checkPath)))
            /\ UNCHANGED <<checkPath, lastErr, fsTouched>>
       ELSE LET r == realpathSync(fs, checkPath)
            IN  /\ lastErr' = r.err
                /\ fsTouched' = TRUE
                /\ IF r.err = "OK"
                   THEN /\ Return(IF ReallyInside(r.path, realBase)
                                  THEN Some(ReturnForNew(fullPath, checkPath)) ELSE Null)
                        /\ checkPath' = checkPath
                   ELSE IF ~IsNotFound(r.err)
                   THEN Return(Null) /\ checkPath' = checkPath
                   ELSE /\ checkPath' = NextAncestor(checkPath)
                        /\ pc' = "walk"
                        /\ result' = result
    /\ UNCHANGED <<fs, basePath, relativePath, normalizedBase, fullPath, realBase,
                   attacks, readLoc>>
    /\ UNCHANGED offPathVars

\* readFile, lines 676-681: `cat` opens the returned path on the filesystem
\* as it is then, following every symlink, and reads it when it is a file
Read ==
    /\ pc = "done"
    /\ result.some
    /\ LET r == realpathSync(fs, result.path)
       IN  readLoc' = IF r.err = "OK" /\ Lookup(fs, r.path).kind = "file"
                      THEN Some(r.path) ELSE Null
    /\ pc' = "read"
    /\ UNCHANGED <<fs, basePath, relativePath, normalizedBase, fullPath, realBase,
                   checkPath, result, lastErr, fsTouched, attacks>>
    /\ UNCHANGED offPathVars

Next == Start \/ ResolveBase \/ ResolveFull \/ Walk \/ Read

Spec == Init /\ [][Next]_vars

\* execCommand runs a caller-given command inside the clone, and any other
\* process may write there too: an entry of the base directory is replaced by
\* a symlink while a call is under way or between its return and the read.
Attack ==
    /\ pc \in {"base", "full", "walk", "done"}
    /\ attacks < MaxAttacks
    /\ \E t \in Targets :
          \/ fs' = [fs EXCEPT ![InnerA] = Link(t), ![InnerF] = Absent]
          \/ /\ fs[InnerA].kind \in {"dir", "noacc"}
             /\ fs' = [fs EXCEPT ![InnerF] = Link(t)]
    /\ fs' # fs
    /\ attacks' = attacks + 1
    /\ UNCHANGED <<basePath, relativePath, pc, normalizedBase, fullPath, realBase,
                   checkPath, result, lastErr, fsTouched, readLoc>>
    /\ UNCHANGED offPathVars

\* the calls readFile makes: the clone directory "/b", or one that is missing,
\* and a relative path
InitRace ==
    /\ fs \in FileSystems
    /\ basePath \in {BaseDir, <<"m">>}
    /\ relativePath \in [abs : {FALSE}, segs : SeqsUpTo({"a", "f", ".."}, MaxSegs)]
    /\ PathInit
    /\ IdentIdle
    /\ ScrubIdle
    /\ ExecIdle
    /\ RemoteIdle
    /\ PlatformIdle
    /\ AuthIdle
    /\ KeyIdle
    /\ CloneIdle

NextRace == Next \/ Attack

SpecRace == InitRace /\ [][NextRace]_vars

\* a call that has started runs to its end, whatever other processes do: the
\* function is synchronous
FairRace == SpecRace /\ WF_vars(Start \/ ResolveBase \/ ResolveFull \/ Walk)

----------------------------------------------------------------------------
(* What the claims speak of *)

\* p lies at or under base: base is a prefix of p, segment by segment
IsUnder(p, base) ==
    /\ Len(base) <= Len(p)
    /\ SubSeq(p, 1, Len(base)) = base

\* The location a create or write of p reaches: every symlink is followed,
\* the final one included, and components that do not exist are kept as named.
RECURSIVE CanonFrom(_, _, _, _)
CanonFrom(f, cur, rest, fuel) ==
    IF rest = <<>> THEN [err |-> "OK", path |-> cur]
    ELSE LET next == Append(cur, Head(rest))
             node == Lookup(f, next)
         IN  IF node.kind = "link" THEN
                  IF fuel = 0 THEN [err |-> "ELOOP", path |-> <<>>]
                  ELSE CanonFrom(f, Root, node.target \o Tail(rest), fuel - 1)
             ELSE CanonFrom(f, next, Tail(rest), fuel)

Canonical(f, p) == CanonFrom(f, Root, p, MaxLinks)

\* the base as the filesystem resolves it now
TrueBase == realpathSync(fs, normalizedBase)

Returned == pc = "done"

\* C1: whenever safeResolvePath returns a path, that path canonicalized on the
\* unchanged filesystem (every symlink followed, a final dangling one too)
\* lies at or under realpath(B).
C1_ResultConfined ==
    (Returned /\ result.some) =>
        /\ TrueBase.err = "OK"
        /\ Canonical(fs, result.path).err = "OK"
        /\ IsUnder(Canonical(fs, result.path).path, TrueBase.path)

\* the first ancestor of p, going up, that resolves
RECURSIVE NearestExisting(_, _)
NearestExisting(f, p) ==
    IF p = <<>> THEN <<>>
    ELSE IF realpathSync(f, Parent(p)).err = "OK" THEN Parent(p)
    ELSE NearestExisting(f, Parent(p))

\* the entry the operating system finds under the name x (lstat)
Lstat(f, x) ==
    LET par == realpathSync(f, Parent(x))
    IN  IF par.err = "OK" THEN Lookup(f, Append(par.path, x[Len(x)])) ELSE Absent

\* x is a symlink that lives inside the base and resolves to a place outside it
EscapingLink(f, x, rbase) ==
    /\ Lstat(f, x).kind = "link"
    /\ realpathSync(f, Parent(x)).err = "OK"
    /\ IsUnder(realpathSync(f, Parent(x)).path, rbase)
    /\ realpathSync(f, x).err = "OK"
    /\ ~IsUnder(realpathSync(f, x).path, rbase)

\* the joined path names, or passes through, such a symlink below the base
PassesEscapingLink ==
    /\ TrueBase.err = "OK"
    /\ IsUnder(fullPath, normalizedBase)
    /\ \E k \in (Len(normalizedBase) + 1)..Len(fullPath) :
          EscapingLink(fs, SubSeq(fullPath, 1, k), TrueBase.path)

\* C2 as stated: a path that names or passes through a symlink inside B whose
\* target resolves outside B is always rejected.
C2_EscapingLinkRejected ==
    (Returned /\ PassesEscapingLink) => result = Null

\* C2 as amended: such a path is rejected unless what lies behind the link
\* leads back inside B: the joined path exists and resolves at or under
\* realpath(B), and that real path is returned, or it does not exist, its
\* nearest existing ancestor resolves at or under realpath(B), and the joined
\* path is returned.
C2_EscapingLinkRejectedUnlessBack ==
    (Returned /\ PassesEscapingLink) =>
        \/ result = Null
        \/ /\ realpathSync(fs, fullPath).err = "OK"
           /\ IsUnder(realpathSync(fs, fullPath).path, TrueBase.path)
           /\ result = Some(realpathSync(fs, fullPath).path)
        \/ /\ realpathSync(fs, fullPath).err = "ENOENT"
           /\ IsUnder(realpathSync(fs, NearestExisting(fs, fullPath)).path, TrueBase.path)
           /\ result = Some(fullPath)

\* the link is met by the ancestor walk: the rest of P does not exist behind it
C2_Witness ==
    /\ Returned
    /\ PassesEscapingLink
    /\ realpathSync(fs, fullPath).err = "ENOENT"
    /\ result = Null

\* C3: a lexical join that is neither the normalized base nor prefixed by
\* normalized base + "/" is rejected, and no filesystem access has been made.
C3_LexicalEscapeRejectedFirst ==
    (pc # "start" /\ ~InsideStr(fullPath, normalizedBase)) =>
        /\ Returned
        /\ result = Null
        /\ ~fsTouched

\* an absolute P naming a sibling whose name starts with the base's name
C3_Witness ==
    /\ Returned
    /\ relativePath.abs
    /\ fullPath # normalizedBase
    /\ StartsWith(PathStr(fullPath), PathStr(normalizedBase))
    /\ ~InsideStr(fullPath, normalizedBase)
    /\ result = Null


\* C4: an error other than ENOENT from resolving the full path or an ancestor
\* ends the call with null; the walk goes on, and a path is returned, only
\* after ENOENT or a successful resolution.
C4_FailsClosed ==
    /\ pc = "walk" => lastErr = "ENOENT"
    /\ (Returned /\ result.some) => lastErr \in {"OK", "ENOENT"}
    /\ (Returned /\ lastErr \in {"EACCES", "ENOTDIR", "ELOOP"}) => result = Null

\* an ancestor examined by the walk fails with another error than ENOENT
C4_Witness ==
    /\ Returned
    /\ checkPath # <<>>
    /\ lastErr \in {"EACCES", "ENOTDIR", "ELOOP"}
    /\ result = Null

\* the joined path does not exist: a component is missing, or is a file
DoesNotExist(f, p) == realpathSync(f, p).err \in {"ENOENT", "ENOTDIR"}

AncestorInside ==
    /\ TrueBase.err = "OK"
    /\ IsUnder(realpathSync(fs, NearestExisting(fs, fullPath)).path, TrueBase.path)

\* C5 as stated: a joined path that does not exist and whose nearest existing
\* ancestor resolves at or under realpath(B) is accepted and returned as joined.
C5_NewPathAccepted ==
    (Returned /\ DoesNotExist(fs, fullPath) /\ AncestorInside) =>
        result = Some(fullPath)

\* C5 as amended: so it is when, besides, the joined path lies lexically at or
\* under the normalized base and its resolution fails with ENOENT.
C5_NewPathAcceptedOnENOENT ==
    (/\ Returned
     /\ InsideStr(fullPath, normalizedBase)
     /\ realpathSync(fs, fullPath).err = "ENOENT"
     /\ AncestorInside) =>
        result = Some(fullPath)

\* a new path below a missing directory: the walk passes a missing ancestor
C5_Witness ==
    /\ Returned
    /\ realpathSync(fs, fullPath).err = "ENOENT"
    /\ realpathSync(fs, Parent(fullPath)).err = "ENOENT"
    /\ IsUnder(Parent(fullPath), normalizedBase)
    /\ Parent(fullPath) # normalizedBase
    /\ AncestorInside
    /\ result = Some(fullPath)
    /\ TrueBase.path # normalizedBase

\* C6: the read that follows a result returned for an existing path lands at
\* or under realBase, whatever another process did to the filesystem meanwhile.
C6_ReadConfined ==
    (pc = "read" /\ checkPath = <<>> /\ readLoc.some) =>
        IsUnder(readLoc.path, realBase)

\* C7: when the base does not resolve, every P is rejected.
C7_BaseUnavailableRejects ==
    (Returned /\ TrueBase.err # "OK") => result = Null

\* the base cannot be reached for lack of permission, P is lexically inside
C7_Witness ==
    /\ Returned
    /\ TrueBase.err = "EACCES"
    /\ InsideStr(fullPath, normalizedBase)
    /\ fullPath # normalizedBase
    /\ result = Null

\* the answer C8 gives for a joined path that exists: its real path when that
\* is realBase or starts with realBase + "/", null otherwise
AnswerForExisting ==
    LET real == realpathSync(fs, fullPath).path
        rb == TrueBase.path
    IN  IF real = rb \/ StartsWith(PathStr(real), PathStr(rb) \o <<"/">>)
        THEN Some(real) ELSE Null

\* "" or "." as relativePath give realBase
EmptyGivesRealBase ==
    (/\ Returned
     /\ ~relativePath.abs
     /\ relativePath.segs \in {<<>>, <<".">>}
     /\ TrueBase.err = "OK") => result = Some(TrueBase.path)

\* C8 as stated: a joined path that exists is answered by its real path when
\* that is realBase or starts with realBase + "/", and by null otherwise; ""
\* and "." give realBase.
C8_ExistingGivesRealPath ==
    /\ (/\ Returned
        /\ TrueBase.err = "OK"
        /\ realpathSync(fs, fullPath).err = "OK") => result = AnswerForExisting
    /\ EmptyGivesRealBase

\* C8 as amended: so it is for a joined path that lies lexically at or under
\* the normalized base.
C8_ExistingInsideGivesRealPath ==
    /\ (/\ Returned
        /\ InsideStr(fullPath, normalizedBase)
        /\ TrueBase.err = "OK"
        /\ realpathSync(fs, fullPath).err = "OK") => result = AnswerForExisting
    /\ EmptyGivesRealBase

\* the real path returned differs from the joined path
C8_Witness ==
    /\ Returned
    /\ realpathSync(fs, fullPath).err = "OK"
    /\ result.some
    /\ result.path # fullPath
    /\ result.path # TrueBase.path

\* C9: every call ends, with null or a path.
C9_Total ==
    /\ <>Returned
    /\ [](Returned => (result = Null \/ (result.some /\ result.path \in Seq(STRING))))

\* the walk took more than one turn before the call ended
C9_Witness ==
    /\ Returned
    /\ checkPath # <<>>
    /\ Len(checkPath) + 1 < Len(fullPath)

----------------------------------------------------------------------------
(* isValidRepoIdentifier *)

\* line 32: value.length > 100
MaxIdLength == 100

\* the characters identifiers are tried with: letters, a digit, ".", "_", "-",
\* the separators, and characters outside the whitelist ("\n" is a newline)
IdChars == {"a", "Z", "0", ".", "_", "-", "/", "\\", " ", ";", "$", "(", "\n"}

\* the class of line 36 widened by the space
WhitelistedOrSpace(c) == c \in {"a", "Z", "0", ".", "_", "-", " "}

\* the class [a-zA-Z0-9._-] of line 36
Whitelisted(c) == c \in {"a", "Z", "0", ".", "_", "-"}

\* String.prototype.includes
Includes(s, sub) ==
    \E i \in 0..(Len(s) - Len(sub)) : SubSeq(s, i + 1, i + Len(sub)) = sub

\* line 32 with >= for >
EmptyOrTooLongOffByOne(v) == v = <<>> \/ Len(v) >= MaxIdLength

\* line 32: !value || value.length > 100
EmptyOrTooLong(v) == v = <<>> \/ Len(v) > MaxIdLength

\* line 34
HasTraversalOrSeparator(v) ==
    Includes(v, <<".", ".">>) \/ Includes(v, <<"/">>) \/ Includes(v, <<"\\">>)

\* line 36: /^[a-zA-Z0-9._-]+$/.test(value)
MatchesWhitelist(v) == Len(v) >= 1 /\ \A i \in 1..Len(v) : Whitelisted(v[i])

isValidRepoIdentifier(v) ==
    IF EmptyOrTooLong(v) THEN FALSE
    ELSE IF HasTraversalOrSeparator(v) THEN FALSE
    ELSE MatchesWhitelist(v)

Repeat(c, n) == [i \in 1..n |-> c]

Identifiers ==
    {h \o Repeat("a", n) : h \in SeqsUpTo(IdChars, MaxHead), n \in 0..MaxPad}

PathIdle ==
    /\ fs = Skeleton
    /\ basePath = BaseDir
    /\ relativePath = [abs |-> FALSE, segs |-> <<>>]
    /\ pc = "idle"
    /\ normalizedBase = <<>>
    /\ fullPath = <<>>
    /\ realBase = <<>>
    /\ checkPath = <<>>
    /\ result = Null
    /\ lastErr = "none"
    /\ fsTouched = FALSE
    /\ attacks = 0
    /\ readLoc = Null

InitIdent ==
    /\ value \in Identifiers
    /\ verdict = "idle"
    /\ PathIdle
    /\ ScrubIdle
    /\ ExecIdle
    /\ RemoteIdle
    /\ PlatformIdle
    /\ AuthIdle
    /\ KeyIdle
    /\ CloneIdle

Validate ==
    /\ verdict = "idle"
    /\ pc = "idle"
    /\ verdict' = IF isValidRepoIdentifier(value) THEN "true" ELSE "false"
    /\ UNCHANGED value
    /\ UNCHANGED offIdentVars

SpecIdent == InitIdent /\ [][Validate]_vars

\* C10: an identifier that is empty, longer than 100 characters, or contains
\* "/", "\" or ".." is refused; one of exactly 100 whitelisted characters
\* without ".." is not refused.
C10_Rejects ==
    verdict # "idle" =>
        /\ (\/ Len(value) = 0
            \/ Len(value) > 100
            \/ \E i \in 1..Len(value) : value[i] \in {"/", "\\"}
            \/ \E i \in 1..(Len(value) - 1) : value[i] = "." /\ value[i + 1] = ".")
              => verdict = "false"
        /\ (/\ Len(value) = 100
            /\ \A i \in 1..Len(value) : value[i] \in {"a", "Z", "0", ".", "_", "-"}
            /\ ~\E i \in 1..(Len(value) - 1) : value[i] = "." /\ value[i + 1] = ".")
              => verdict = "true"

\* 101 characters, all whitelisted: refused for its length alone
C10_Witness ==
    /\ verdict = "false"
    /\ Len(value) = 101
    /\ \A i \in 1..Len(value) : value[i] \in {"a", "Z", "0", "_", "-"}

\* C11: an identifier is accepted exactly when it has 1 to 100 characters, does
\* not contain "..", and every character is a letter, a digit, ".", "_" or
\* "-"; any other character (space, ";", "$", parenthesis, newline) refuses it.
C11_ExactlyWhitelist ==
    verdict # "idle" =>
        (verdict = "true" <=>
            /\ Len(value) >= 1
            /\ Len(value) <= 100
            /\ ~\E i \in 1..(Len(value) - 1) : value[i] = "." /\ value[i + 1] = "."
            /\ \A i \in 1..Len(value) : value[i] \in {"a", "Z", "0", ".", "_", "-"})

\* refused for one character alone: a space, ";", "$", "(" or a newline in an
\* identifier of legal length without separators or ".."
C11_Witness ==
    /\ verdict = "false"
    /\ Len(value) \in 2..100
    /\ value[1] \in {" ", ";", "$", "(", "\n"}
    /\ \A i \in 2..Len(value) : value[i] \in {"a", "Z", "0", "_", "-"}

----------------------------------------------------------------------------
(* sanitizeGitOutput (lines 24-26) *)

\* most pieces a text is put together from
MaxPieces == 5

\* the literal the pattern starts with: x-access-token:
TokenPrefix ==
    <<"x", "-", "a", "c", "c", "e", "s", "s", "-", "t", "o", "k", "e", "n", ":">>

\* the replacement with its closing "@" dropped
ReplacementWithoutAt == TokenPrefix \o <<"*", "*", "*">>

\* the replacement string: x-access-token:***@
Replacement == TokenPrefix \o <<"*", "*", "*", "@">>

\* where the literal matches at position i of t
LiteralAt(t, i) ==
    /\ i + Len(TokenPrefix) - 1 <= Len(t)
    /\ SubSeq(t, i, i + Len(TokenPrefix) - 1) = TokenPrefix

\* [^@]+ taken greedily from position j: the last position of the run of
\* characters other than "@" that starts at j (j - 1 when the run is empty);
\* the class is negated, so it takes a newline as well
RECURSIVE RunEnd(_, _)
RunEnd(t, j) ==
    IF j <= Len(t) /\ t[j] # "@" THEN RunEnd(t, j + 1) ELSE j - 1

\* the pattern with [^@]* for [^@]+
MatchEndEmptyToken(t, i) ==
    IF ~LiteralAt(t, i) THEN 0
    ELSE LET e == RunEnd(t, i + Len(TokenPrefix))
         IN IF e + 1 <= Len(t) /\ t[e + 1] = "@" THEN e + 1 ELSE 0

\* one attempt of /x-access-token:[^@]+@/ at position i: the position of the
\* closing "@", or 0 when the pattern does not match there.  Giving characters
\* of the greedy run back never helps: the one after a shorter run is not "@".
MatchEnd(t, i) ==
    IF ~LiteralAt(t, i) THEN 0
    ELSE LET e == RunEnd(t, i + Len(TokenPrefix))
         IN IF e >= i + Len(TokenPrefix) /\ e + 1 <= Len(t) /\ t[e + 1] = "@"
            THEN e + 1
            ELSE 0

\* replace without the g flag: the first match only
RECURSIVE ReplaceFirstFrom(_, _)
ReplaceFirstFrom(t, i) ==
    IF i > Len(t) THEN <<>>
    ELSE IF MatchEnd(t, i) > 0
         THEN Replacement \o SubSeq(t, MatchEnd(t, i) + 1, Len(t))
         ELSE <<t[i]>> \o ReplaceFirstFrom(t, i + 1)

\* replace with the g flag, from position i on: matches are taken leftmost
\* first and the search resumes after each match
RECURSIVE ReplaceAllFrom(_, _)
ReplaceAllFrom(t, i) ==
    IF i > Len(t) THEN <<>>
    ELSE IF MatchEnd(t, i) > 0
         THEN Replacement \o ReplaceAllFrom(t, MatchEnd(t, i) + 1)
         ELSE <<t[i]>> \o ReplaceAllFrom(t, i + 1)

\* line 25 without the g flag
sanitizeFirstOnly(t) == ReplaceFirstFrom(t, 1)

\* line 25
sanitizeGitOutput(t) == ReplaceAllFrom(t, 1)

\* a credential as git prints it: x-access-token:t@h
CredentialUrl == TokenPrefix \o <<"t", "@", "h">>

\* what texts are put together from: the literal, "@", a token character, the
\* "*" of the replacement, a newline, and a whole credential with its host
Pieces == {TokenPrefix, <<"@">>, <<"t">>, <<"*">>, <<"\n">>, CredentialUrl}

RECURSIVE Concat(_)
Concat(ps) == IF ps = <<>> THEN <<>> ELSE Head(ps) \o Concat(Tail(ps))

Texts == {Concat(ps) : ps \in SeqsUpTo(Pieces, MaxPieces)}

InitScrub ==
    /\ output \in Texts
    /\ scrubbed = <<>>
    /\ rescrubbed = <<>>
    /\ scrubPc = "idle"
    /\ PathIdle
    /\ IdentIdle
    /\ ExecIdle
    /\ RemoteIdle
    /\ PlatformIdle
    /\ AuthIdle
    /\ KeyIdle
    /\ CloneIdle

\* sanitizeGitOutput(output)
Sanitize ==
    /\ scrubPc = "idle"
    /\ pc = "idle"
    /\ scrubbed' = sanitizeGitOutput(output)
    /\ scrubPc' = "once"
    /\ UNCHANGED <<output, rescrubbed>>
    /\ UNCHANGED offScrubVars

\* sanitizeGitOutput applied to its own result
SanitizeAgain ==
    /\ scrubPc = "once"
    /\ rescrubbed' = sanitizeGitOutput(scrubbed)
    /\ scrubPc' = "twice"
    /\ UNCHANGED <<output, scrubbed>>
    /\ UNCHANGED offScrubVars

NextScrub == Sanitize \/ SanitizeAgain

SpecScrub == InitScrub /\ [][NextScrub]_vars

(* Vocabulary of the claims about sanitizeGitOutput *)

\* the inserted marker, as the claims spell it
Marker ==
    <<"x", "-", "a", "c", "c", "e", "s", "s", "-", "t", "o", "k", "e", "n", ":",
      "*", "*", "*", "@">>

\* a credential starts at position i of t: "x-access-token:", then at least
\* one character other than "@", then, somewhere after, an "@"
CredAt(t, i) ==
    /\ i >= 1
    /\ i + 15 <= Len(t)
    /\ t[i] = "x"
    /\ SubSeq(t, i, i + 14) = SubSeq(Marker, 1, 15)
    /\ t[i + 15] # "@"
    /\ \E j \in (i + 16)..Len(t) : t[j] = "@"

\* the "@" that closes the credential starting at i
CredEnd(t, i) ==
    CHOOSE j \in (i + 16)..Len(t) :
        t[j] = "@" /\ \A k \in (i + 15)..(j - 1) : t[k] # "@"

\* the credentials of t that do not lie inside the token of an earlier one
Spans(t) ==
    LET creds == {i \in 1..Len(t) : CredAt(t, i)}
    IN {i \in creds : ~\E k \in creds : k < i /\ CredEnd(t, k) >= i}

\* position p of t lies inside one of the credentials starting in S
InSpan(t, S, p) == \E i \in S : i <= p /\ p <= CredEnd(t, i)

\* by how much the text grows when the credentials starting at the positions
\* in S are replaced by the marker (negative when it shrinks)
RECURSIVE GrowthOver(_, _)
GrowthOver(t, S) ==
    IF S = {} THEN 0
    ELSE LET i == CHOOSE x \in S : TRUE
         IN Len(Marker) - (CredEnd(t, i) + 1 - i) + GrowthOver(t, S \ {i})

\* where position p of t (outside every credential, or the start of one) is
\* found in the result, S being the credentials of t
Moved(t, S, p) == p + GrowthOver(t, {i \in S : CredEnd(t, i) < p})

\* where the text after the credential ending at e stops: before the next
\* credential of S, or at the end of t
StretchEnd(t, S, e) ==
    IF \E i \in S : i > e
    THEN (CHOOSE i \in S : i > e /\ \A k \in S : k > e => i <= k) - 1
    ELSE Len(t)

\* C13: sanitizeGitOutput is idempotent: applying it to its own result gives
\* that result again; in particular the marker x-access-token:***@ is left as
\* it is.
C13_Idempotent ==
    /\ scrubPc = "twice" => rescrubbed = scrubbed
    /\ (scrubPc # "idle" /\ output = Marker) => scrubbed = Marker

\* a text with a credential was redacted, and redacting the result again
\* found the marker and left it
C13_Witness ==
    /\ scrubPc = "twice"
    /\ Spans(output) # {}
    /\ scrubbed # output
    /\ rescrubbed = scrubbed
    /\ \E i \in 1..Len(scrubbed) :
        /\ i + Len(Marker) - 1 <= Len(scrubbed)
        /\ SubSeq(scrubbed, i, i + Len(Marker) - 1) = Marker
    /\ \E j \in 1..Len(scrubbed) : scrubbed[j] = "@" /\ j > Len(Marker)

\* C14: every credential in the text, not only the first, is replaced by the
\* marker x-access-token:***@; what follows its "@" up to the next credential
\* is kept, and the result holds no credential other than the marker.
C14_AllRedacted ==
    scrubPc # "idle" =>
        LET S == Spans(output)
            R == Spans(scrubbed)
        IN /\ \A i \in S :
                LET at == Moved(output, S, i)
                    e == CredEnd(output, i)
                IN /\ at + Len(Marker) - 1 <= Len(scrubbed)
                   /\ SubSeq(scrubbed, at, at + Len(Marker) - 1) = Marker
                   /\ \A q \in (e + 1)..StretchEnd(output, S, e) :
                        scrubbed[at + Len(Marker) + (q - e - 1)] = output[q]
           /\ Cardinality(R) = Cardinality(S)
           /\ \A i \in R : SubSeq(scrubbed, i, CredEnd(scrubbed, i)) = Marker

\* two credentials with different tokens, each followed by a host: both are
\* redacted
C14_Witness ==
    /\ scrubPc = "once"
    /\ Cardinality(Spans(output)) = 2
    /\ \A i \in Spans(output) :
        /\ CredEnd(output, i) < Len(output)
        /\ output[CredEnd(output, i) + 1] = "h"
    /\ \E i, j \in Spans(output) : CredEnd(output, i) - i # CredEnd(output, j) - j
    /\ Cardinality(Spans(scrubbed)) = 2

\* C15: the text outside the credentials is unchanged and in order, nothing
\* else is added, and a text without a credential is returned as it is.
C15_RestUnchanged ==
    scrubPc # "idle" =>
        LET S == Spans(output)
        IN /\ Len(scrubbed) = Len(output) + GrowthOver(output, S)
           /\ \A p \in 1..Len(output) :
                ~InSpan(output, S, p) => scrubbed[Moved(output, S, p)] = output[p]
           /\ (~\E i \in 1..Len(output) : CredAt(output, i)) => scrubbed = output

\* text before, between and after two credentials; and a text that has the
\* literal and an "@" but no token between them is returned unchanged
C15_Witness ==
    /\ scrubPc = "once"
    /\ \/ /\ Cardinality(Spans(output)) = 1
          /\ ~InSpan(output, Spans(output), 1)
          /\ ~InSpan(output, Spans(output), Len(output))
          /\ scrubbed # output
       \/ /\ Spans(output) = {}
          /\ \E i \in 1..Len(output) :
                /\ i + 15 <= Len(output)
                /\ SubSeq(output, i, i + 14) = SubSeq(Marker, 1, 15)
                /\ output[i + 15] = "@"
          /\ scrubbed = output

----------------------------------------------------------------------------
(* execute (lines 882-1034) and the operations it dispatches to.  One action  *)
(* is one call of execute, from platform detection to the value returned;     *)
(* what the subprocesses answer is chosen by the environment.                 *)

\* the owners and repos execute is called with (lines 851-852: strings), over
\* the characters of IdChars
OwnerArgs == {<<"a">>, <<".", ".">>, <<>>}
RepoArgs == {<<"a">>, <<"Z">>, <<"a", "/">>}

\* ctx.sessionID
SessionID == <<"s">>

\* the operations of the enum (line 854) and a name outside it
Operations ==
    {"clone", "branch", "commit", "push", "pr", "exec", "read", "write", "list"}

\* lines 111-113
getRepoKey(sessionID, owner, repo) ==
    sessionID \o <<"/">> \o owner \o <<"/">> \o repo

\* the access token getTargetRepoToken returns
Secret == <<"S">>

\* lines 467-469, as git prints it: x-access-token:<token>@<host>
CloneUrl == TokenPrefix \o Secret \o <<"@", "h">>

\* what a subprocess that does not touch the remote writes: nothing, or a
\* message
PlainOutputs == {<<>>, <<"e">>}

\* what a subprocess that talks to the remote, reads the clone's files or
\* runs the caller's command can write: the remote URL, token included, is
\* stored in .git/config of the clone and git prints it in its messages
RepoOutputs == PlainOutputs \cup {<<"e">> \o CloneUrl}

\* one bash command line: the call site, the strings spliced into it through
\* shellEscape, and the strings spliced into it as they are
Cmd(site, quoted, raw) == [site |-> site, quoted |-> quoted, raw |-> raw]

\* line 195
DetectCmd == Cmd("git remote get-url origin (cwd)", {}, {})

\* lines 249, 320 (258, 325 for glab)
AuthStatusCmd == Cmd("auth status", {}, {})
AuthTokenCmd == Cmd("auth token", {}, {})

\* line 503
MkdirSessionCmd == Cmd("mkdir -p", {"tmpdir/sessionID"}, {})
\* line 506
RmCloneCmd == Cmd("rm -rf", {"clonePath"}, {})
\* lines 508-511
GitCloneCmd(given) ==
    Cmd("git clone", {"cloneUrl", "clonePath"} \cup (given \cap {"branch"}), {})
\* lines 517-519
DefaultBranchCmd == Cmd("git rev-parse --abbrev-ref HEAD", {"clonePath"}, {})
\* lines 529-530: botEmail and botName are constants of the program
ConfigCmds == {Cmd("git config user.email", {"clonePath"}, {}),
               Cmd("git config user.name", {"clonePath"}, {})}

\* lines 546-548 with the branch name spliced as it is
CheckoutNewCmdRaw == Cmd("git checkout -b", {"repoPath"}, {"branch"})
\* lines 546-548
CheckoutNewCmd == Cmd("git checkout -b", {"repoPath", "branch"}, {})
\* lines 551-553
CheckoutCmd == Cmd("git checkout", {"repoPath", "branch"}, {})

\* lines 566, 571, 576-578, 583
AddCmd == Cmd("git add -A", {"repoPath"}, {})
StatusCmd == Cmd("git status --porcelain", {"repoPath"}, {})
CommitCmd == Cmd("git commit -m", {"repoPath", "message"}, {})
HeadCmd == Cmd("git rev-parse HEAD", {"repoPath"}, {})

\* lines 593, 596, 601, 604-606
CurrentBranchCmd == Cmd("git rev-parse --abbrev-ref HEAD", {"repoPath"}, {})
RemoteUrlCmd == Cmd("git remote get-url origin", {"repoPath"}, {})
SetUrlCmd == Cmd("git remote set-url origin", {"repoPath", "remoteUrl"}, {})
PushCmd == Cmd("git push -u origin", {"repoPath", "branch"}, {})

\* lines 627-656: body is escaped also when it is empty (github) or left out
\* (gitlab); base is args.base || state.defaultBranch, never empty; the host
\* is spliced only when it is not the platform's public one
PrCmd(platform, given) ==
    IF platform.platform = "github"
    THEN Cmd("gh pr create",
             {"repoPath", "token", "title", "body", "base", "headBranch"}
                 \cup (IF platform.selfHosted THEN {"host"} ELSE {}),
             {})
    ELSE Cmd("glab mr create",
             {"repoPath", "token", "title", "base", "headBranch"}
                 \cup (IF "message" \in given THEN {"body"} ELSE {})
                 \cup (IF platform.selfHosted THEN {"host"} ELSE {}),
             {})

\* line 681
CatCmd == Cmd("cat", {"fullPath"}, {})
\* lines 702, 705-708: the content goes through base64 first
MkdirParentCmd == Cmd("mkdir -p", {"dirPath"}, {})
WriteCmd == Cmd("echo | base64 -d >", {"base64Content", "fullPath"}, {})
\* line 728
FindCmd == Cmd("find", {"targetPath"}, {})
\* line 757
ShellCmd == Cmd("cd &&", {"repoPath"}, {"command"})

\* the JSON string execute resolves to: success, the fixed part of the message
\* and, in text, what the result carries of a subprocess's output
Reply(success, tag, text) ==
    [kind |-> "json", success |-> success, tag |-> tag, text |-> text]

\* what an operation hands back to execute: its result, the command lines it
\* ran, the keys of clonedRepos afterwards, and whether it asked for a token
Res(r, cmds, repos, asked) ==
    [reply |-> r, cmds |-> cmds, repos |-> repos, asked |-> asked]

\* lines 904-909 and the same lines of the other cases
NotCloned == Reply(FALSE, "not cloned", <<>>)

\* PlatformInfo: the platform, and whether the host is not the public one
GitHub == [platform |-> "github", selfHosted |-> FALSE]
GitLab == [platform |-> "gitlab", selfHosted |-> FALSE]
GitHubEnterprise == [platform |-> "github", selfHosted |-> TRUE]
\* the two values of cachedPlatform that are no PlatformInfo
UndefinedPlatform == [platform |-> "undefined", selfHosted |-> FALSE]
NullPlatform == [platform |-> "null", selfHosted |-> FALSE]

\* what "git remote get-url origin" of the working directory answers: a URL
\* of one of the hosts, a URL in neither the git@host: nor the https:// form,
\* or nothing (no remote, not a repository)
Remotes == {"github.com", "gitlab.com", "github.corp", "ssh://", "none"}

\* lines 117-172 on those answers
detectPlatformFromRemote(remote) ==
    CASE remote = "github.com" -> GitHub
      [] remote = "gitlab.com" -> GitLab
      [] remote = "github.corp" -> GitHubEnterprise
      [] OTHER -> NullPlatform

\* lines 178-204: the platform detectCurrentRepoPlatform returns and caches
PlatformAfter(remote) ==
    IF cachedPlatform # UndefinedPlatform THEN cachedPlatform
    ELSE IF envPlatform = "gitlab" THEN GitLab
    ELSE IF envPlatform = "github" THEN GitHub
    ELSE IF remote # "none" THEN detectPlatformFromRemote(remote)
    ELSE GitHub

\* line 195: the remote is asked only when nothing is cached and nothing is
\* configured
DetectCmds ==
    IF cachedPlatform = UndefinedPlatform /\ envPlatform = "unset"
    THEN {DetectCmd}
    ELSE {}

\* lines 479-484 with the repo looked at first
InvalidIdentifierRepoFirst(owner, repo) ==
    IF ~isValidRepoIdentifier(repo) THEN "Invalid repo name"
    ELSE IF ~isValidRepoIdentifier(owner) THEN "Invalid owner name"
    ELSE "valid"

\* lines 479-484
InvalidIdentifier(owner, repo) ==
    IF ~isValidRepoIdentifier(owner) THEN "Invalid owner name"
    ELSE IF ~isValidRepoIdentifier(repo) THEN "Invalid repo name"
    ELSE "valid"

\* lines 387-464 and the CLI probes of 245-261, 319-327: the command lines
\* token acquisition runs when the CLI is consulted
AuthCmds(cli) == IF cli THEN {AuthStatusCmd, AuthTokenCmd} ELSE {}

\* lines 471-540.  cli, gotToken, cloned and stderr are the environment's:
\* whether the CLI is consulted, whether a token is found, whether git clone
\* exits with 0, and what it writes.
cloneRepo(key, owner, repo, given, cli, gotToken, cloned, stderr) ==
    IF InvalidIdentifier(owner, repo) # "valid"
    THEN Res(Reply(FALSE, InvalidIdentifier(owner, repo), <<>>), {}, clonedRepos, FALSE)
    ELSE IF key \in clonedRepos
    THEN Res(Reply(TRUE, "", <<>>), {}, clonedRepos, FALSE)
    ELSE IF ~gotToken
    THEN Res(Reply(FALSE, "No authentication available", <<>>),
             AuthCmds(cli), clonedRepos, TRUE)
    ELSE IF ~cloned
    THEN Res(Reply(FALSE, "Clone failed", sanitizeGitOutput(stderr)),
             AuthCmds(cli) \cup {MkdirSessionCmd, RmCloneCmd, GitCloneCmd(given)},
             clonedRepos, TRUE)
    ELSE Res(Reply(TRUE, "", <<>>),
             AuthCmds(cli) \cup {MkdirSessionCmd, RmCloneCmd, GitCloneCmd(given),
                                 DefaultBranchCmd} \cup ConfigCmds,
             clonedRepos \cup {key}, TRUE)

\* lines 902-917 with the two checks in the other order
BranchGuardArgFirst(registered, given) ==
    IF "branch" \notin given THEN "Branch name required"
    ELSE IF ~registered THEN "not cloned"
    ELSE "go"

\* lines 902-915: what stops the branch case before createBranch
BranchGuard(registered, given) ==
    IF ~registered THEN "not cloned"
    ELSE IF "branch" \notin given THEN "Branch name required"
    ELSE "go"

\* lines 542-560
createBranch(created, checkedOut, stderr) ==
    IF created THEN Res(Reply(TRUE, "", <<>>), {CheckoutNewCmd}, clonedRepos, FALSE)
    ELSE IF checkedOut
    THEN Res(Reply(TRUE, "", <<>>), {CheckoutNewCmd, CheckoutCmd}, clonedRepos, FALSE)
    ELSE Res(Reply(FALSE, "Failed to create/checkout branch", sanitizeGitOutput(stderr)),
             {CheckoutNewCmd, CheckoutCmd}, clonedRepos, FALSE)

\* lines 562-587: stderr is put into the message as it is
commitChanges(staged, dirty, committed, stderr) ==
    IF ~staged
    THEN Res(Reply(FALSE, "Failed to stage changes", stderr), {AddCmd},
             clonedRepos, FALSE)
    ELSE IF ~dirty
    THEN Res(Reply(FALSE, "No changes to commit", <<>>), {AddCmd, StatusCmd},
             clonedRepos, FALSE)
    ELSE IF ~committed
    THEN Res(Reply(FALSE, "Failed to commit", stderr), {AddCmd, StatusCmd, CommitCmd},
             clonedRepos, FALSE)
    ELSE Res(Reply(TRUE, "", <<>>), {AddCmd, StatusCmd, CommitCmd, HeadCmd},
             clonedRepos, FALSE)

\* lines 589-613: hasToken says whether the remote URL already holds the token
pushBranch(hasToken, pushed, stderr) ==
    LET cmds == {CurrentBranchCmd, RemoteUrlCmd, PushCmd}
                    \cup (IF hasToken THEN {} ELSE {SetUrlCmd})
    IN IF pushed THEN Res(Reply(TRUE, "", <<>>), cmds, clonedRepos, FALSE)
       ELSE Res(Reply(FALSE, "Push failed", sanitizeGitOutput(stderr)), cmds,
                clonedRepos, FALSE)

\* lines 615-669: on success stdout, the URL of the request, is returned as
\* prUrl
createPR(platform, given, created, out) ==
    LET cmds == {CurrentBranchCmd, PrCmd(platform, given)}
    IN IF created THEN Res(Reply(TRUE, "", out), cmds, clonedRepos, FALSE)
       ELSE Res(Reply(FALSE, "PR creation failed", sanitizeGitOutput(out)), cmds,
                clonedRepos, FALSE)

\* lines 671-687: confined says whether safeResolvePath returned a path;
\* stderr, resp. the file's content, is returned as it is
readFile(confined, done, out) ==
    IF ~confined
    THEN Res(Reply(FALSE, "Invalid path", <<>>), {}, clonedRepos, FALSE)
    ELSE IF ~done
    THEN Res(Reply(FALSE, "Failed to read file", out), {CatCmd}, clonedRepos, FALSE)
    ELSE Res(Reply(TRUE, "", out), {CatCmd}, clonedRepos, FALSE)

\* lines 689-715
writeFile(confined, done, stderr) ==
    IF ~confined
    THEN Res(Reply(FALSE, "Invalid path", <<>>), {}, clonedRepos, FALSE)
    ELSE IF ~done
    THEN Res(Reply(FALSE, "Failed to write file", stderr),
             {MkdirParentCmd, WriteCmd}, clonedRepos, FALSE)
    ELSE Res(Reply(TRUE, "", <<>>), {MkdirParentCmd, WriteCmd}, clonedRepos, FALSE)

\* lines 717-742: without a path the clone directory itself is listed
listFiles(given, confined, done, out) ==
    IF "path" \in given /\ ~confined
    THEN Res(Reply(FALSE, "Invalid path", <<>>), {}, clonedRepos, FALSE)
    ELSE IF ~done
    THEN Res(Reply(FALSE, "Failed to list files", out), {FindCmd}, clonedRepos, FALSE)
    ELSE Res(Reply(TRUE, "", out), {FindCmd}, clonedRepos, FALSE)

\* lines 744-765: stdout and stderr are returned as they are, success or not
execCommand(done, out) == Res(Reply(done, "", out), {ShellCmd}, clonedRepos, FALSE)

\* a case of the switch that stops before its operation
Stop(tag) == Res(Reply(FALSE, tag, <<>>), {}, clonedRepos, FALSE)

\* the switch without its default case: execute ends without a return value
UnknownOperationNoDefault ==
    Res([kind |-> "undefined", success |-> FALSE, tag |-> "", text |-> <<>>],
        {}, clonedRepos, FALSE)

\* lines 1026-1027
UnknownOperation == Stop("Unknown operation")

\* lines 882-895 around the switch: platform detection, the repository key,
\* and the operation's result res turned into the reply.  With string
\* arguments nothing inside the try block throws (run, safeResolvePath and
\* getTokenViaOIDC catch their own exceptions), so the catch of lines
\* 1029-1033 is not entered.
Execute(op, owner, repo, given, remote, res) ==
    LET platform == PlatformAfter(remote)
        out == res
    IN /\ cachedPlatform' = platform
       /\ call' = [op |-> op, owner |-> owner, repo |-> repo, given |-> given,
                   registered |-> getRepoKey(SessionID, owner, repo) \in clonedRepos,
                   reposBefore |-> clonedRepos]
       /\ IF platform = NullPlatform
          THEN /\ reply' = Reply(FALSE, "Could not detect platform", <<>>)
               /\ commands' = DetectCmds
               /\ tokenAsked' = FALSE
               /\ UNCHANGED clonedRepos
          ELSE /\ reply' = out.reply
               /\ commands' = DetectCmds \cup out.cmds
               /\ tokenAsked' = out.asked
               /\ clonedRepos' = out.repos
       /\ UNCHANGED envPlatform
       /\ UNCHANGED offExecVars

\* the key is in the Map: clonedRepos.get(repoKey) of each case
Registered(owner, repo) == getRepoKey(SessionID, owner, repo) \in clonedRepos

\* a case that needs the clone and one argument: lines 919-934, 970-996
Guard(registered, given, arg, tag) ==
    IF ~registered THEN "not cloned"
    ELSE IF arg \notin given THEN tag
    ELSE "go"

\* the answers the working directory's remote can give to this call: it is
\* asked only by the call that fills the cache (line 195)
RemotesAsked == IF DetectCmds # {} THEN Remotes ELSE {"none"}

\* the answers of the environment to a subprocess: those in S when the call
\* runs it, one of them when it does not
Env(runs, S) == IF runs THEN S ELSE {CHOOSE x \in S : TRUE}

\* lines 897-900
ExecClone ==
    \E owner \in OwnerArgs, repo \in RepoArgs, given \in SUBSET {"branch"},
       remote \in RemotesAsked :
        LET runs == /\ InvalidIdentifier(owner, repo) = "valid"
                    /\ ~Registered(owner, repo)
        IN \E cli \in Env(runs, BOOLEAN), gotToken \in Env(runs, BOOLEAN) :
            \E cloned \in Env(runs /\ gotToken, BOOLEAN) :
                \E stderr \in Env(runs /\ gotToken /\ ~cloned, RepoOutputs) :
                    /\ pc = "idle"
                    /\ Execute("clone", owner, repo, given, remote,
                               cloneRepo(getRepoKey(SessionID, owner, repo), owner,
                                         repo, given, cli, gotToken, cloned, stderr))

\* lines 902-917
ExecBranch ==
    \E owner \in OwnerArgs, repo \in RepoArgs, given \in SUBSET {"branch"},
       remote \in RemotesAsked :
        LET g == BranchGuard(Registered(owner, repo), given)
        IN \E created \in Env(g = "go", BOOLEAN) :
            \E checkedOut \in Env(g = "go" /\ ~created, BOOLEAN) :
                \E stderr \in Env(g = "go" /\ ~created /\ ~checkedOut, PlainOutputs) :
                    /\ pc = "idle"
                    /\ Execute("branch", owner, repo, given, remote,
                               IF g # "go" THEN Stop(g)
                               ELSE createBranch(created, checkedOut, stderr))

\* lines 919-934
ExecCommit ==
    \E owner \in OwnerArgs, repo \in RepoArgs, given \in SUBSET {"message"},
       remote \in RemotesAsked :
        LET g == Guard(Registered(owner, repo), given, "message",
                       "Commit message required")
        IN \E staged \in Env(g = "go", BOOLEAN) :
            \E dirty \in Env(g = "go" /\ staged, BOOLEAN) :
                \E committed \in Env(g = "go" /\ staged /\ dirty, BOOLEAN) :
                    \E stderr \in Env(g = "go" /\ ~(staged /\ dirty /\ committed),
                                      PlainOutputs) :
                        /\ pc = "idle"
                        /\ Execute("commit", owner, repo, given, remote,
                                   IF g # "go" THEN Stop(g)
                                   ELSE commitChanges(staged, dirty, committed, stderr))

\* lines 936-945
ExecPush ==
    \E owner \in OwnerArgs, repo \in RepoArgs, remote \in RemotesAsked :
        LET runs == Registered(owner, repo)
        IN \E hasToken \in Env(runs, BOOLEAN), pushed \in Env(runs, BOOLEAN) :
            \E stderr \in Env(runs /\ ~pushed, RepoOutputs) :
                /\ pc = "idle"
                /\ Execute("push", owner, repo, {}, remote,
                           IF ~runs THEN Stop("not cloned")
                           ELSE pushBranch(hasToken, pushed, stderr))

\* lines 947-968
ExecPr ==
    \E owner \in OwnerArgs, repo \in RepoArgs, given \in SUBSET {"title", "message"},
       remote \in RemotesAsked :
        LET g == Guard(Registered(owner, repo), given, "title", "PR/MR title required")
        IN \E created \in Env(g = "go", BOOLEAN) :
            \E out \in IF created THEN Env(g = "go", PlainOutputs)
                                   ELSE Env(g = "go", RepoOutputs) :
                /\ pc = "idle"
                /\ Execute("pr", owner, repo, given, remote,
                           IF g # "go" THEN Stop(g)
                           ELSE createPR(PlatformAfter(remote), given, created, out))

\* lines 970-982
ExecShell ==
    \E owner \in OwnerArgs, repo \in RepoArgs, given \in SUBSET {"command"},
       remote \in RemotesAsked :
        LET g == Guard(Registered(owner, repo), given, "command", "Command required")
        IN \E done \in Env(g = "go", BOOLEAN), out \in Env(g = "go", RepoOutputs) :
            /\ pc = "idle"
            /\ Execute("exec", owner, repo, given, remote,
                       IF g # "go" THEN Stop(g) ELSE execCommand(done, out))

\* lines 984-996
ExecRead ==
    \E owner \in OwnerArgs, repo \in RepoArgs, given \in SUBSET {"path"},
       remote \in RemotesAsked :
        LET g == Guard(Registered(owner, repo), given, "path", "Path required")
        IN \E confined \in Env(g = "go", BOOLEAN) :
            \E done \in Env(g = "go" /\ confined, BOOLEAN) :
                \E out \in IF done THEN Env(g = "go" /\ confined, RepoOutputs)
                                    ELSE Env(g = "go" /\ confined, PlainOutputs) :
                    /\ pc = "idle"
                    /\ Execute("read", owner, repo, given, remote,
                               IF g # "go" THEN Stop(g)
                               ELSE readFile(confined, done, out))

\* lines 998-1013
ExecWrite ==
    \E owner \in OwnerArgs, repo \in RepoArgs, given \in SUBSET {"path", "content"},
       remote \in RemotesAsked :
        LET g == IF Guard(Registered(owner, repo), given, "path", "Path required") # "go"
                 THEN Guard(Registered(owner, repo), given, "path", "Path required")
                 ELSE IF "content" \notin given THEN "Content required"
                 ELSE "go"
        IN \E confined \in Env(g = "go", BOOLEAN) :
            \E done \in Env(g = "go" /\ confined, BOOLEAN) :
                \E stderr \in Env(g = "go" /\ confined /\ ~done, PlainOutputs) :
                    /\ pc = "idle"
                    /\ Execute("write", owner, repo, given, remote,
                               IF g # "go" THEN Stop(g)
                               ELSE writeFile(confined, done, stderr))

\* lines 1015-1024
ExecList ==
    \E owner \in OwnerArgs, repo \in RepoArgs, given \in SUBSET {"path"},
       remote \in RemotesAsked :
        LET runs == Registered(owner, repo)
        IN \E confined \in Env(runs /\ "path" \in given, BOOLEAN) :
            \E done \in Env(runs, BOOLEAN), out \in Env(runs, PlainOutputs) :
                /\ pc = "idle"
                /\ Execute("list", owner, repo, given, remote,
                           IF ~runs THEN Stop("not cloned")
                           ELSE listFiles(given, confined, done, out))

\* lines 1026-1027: an operation name outside the enum
ExecUnknown ==
    \E owner \in OwnerArgs, repo \in RepoArgs, remote \in RemotesAsked :
        /\ pc = "idle"
        /\ Execute("invalid-op", owner, repo, {}, remote, UnknownOperation)

\* the process starts with CROSS_REPO_PLATFORM set or not, nothing cached and
\* nothing cloned
InitExec ==
    /\ envPlatform \in {"unset", "github", "gitlab"}
    /\ cachedPlatform = UndefinedPlatform
    /\ clonedRepos = {}
    /\ call = NoCall
    /\ commands = {}
    /\ tokenAsked = FALSE
    /\ reply = NoReply
    /\ PathIdle
    /\ IdentIdle
    /\ ScrubIdle
    /\ RemoteIdle
    /\ PlatformIdle
    /\ AuthIdle
    /\ KeyIdle
    /\ CloneIdle

NextExec ==
    \/ ExecClone
    \/ ExecBranch
    \/ ExecCommit
    \/ ExecPush
    \/ ExecPr
    \/ ExecShell
    \/ ExecRead
    \/ ExecWrite
    \/ ExecList
    \/ ExecUnknown

SpecExec == InitExec /\ [][NextExec]_vars

(* Claims about execute *)

\* C16: nothing execute returns, message or output, after any sequence of
\* operations, contains the access token stored for a cloned repository.
C16_NoTokenReturned ==
    (reply.kind = "json" /\ clonedRepos # {}) =>
        ~\E i \in 1..Len(reply.text) : reply.text[i] = "S"

\* C17 as stated: every string a call puts on a bash command line, the exec
\* command included, goes through shellEscape.
C17_AllEscaped == \A c \in commands : c.raw = {}

\* C17: every string a call puts on a bash command line goes through
\* shellEscape, except the command of exec, which is the shell text to run.
C17_AllEscapedButCommand ==
    \A c \in commands :
        /\ c.raw \subseteq {"command"}
        /\ c.raw # {} => call.op = "exec"

\* a branch was created in a clone: the clone path and the caller's branch
\* name were put on the command line
C17_Witness ==
    /\ call.op = "branch"
    /\ reply.kind = "json"
    /\ reply.success
    /\ \E c \in commands : {"repoPath", "branch"} \subseteq c.quoted

\* C18 as stated: every call, whatever its arguments and whatever came before,
\* resolves to a JSON string with a boolean success; for an operation outside
\* the enum success is false and the error says "Unknown operation".
C18_NeverThrows ==
    call.op # "none" =>
        /\ reply.kind = "json"
        /\ reply.success \in BOOLEAN
        /\ call.op \notin Operations =>
            (~reply.success /\ reply.tag = "Unknown operation")

\* C18: every call resolves to a JSON string with a boolean success; for an
\* operation outside the enum success is false, and the error says "Unknown
\* operation" when the platform was detected and "Could not detect platform"
\* when it was not.
C18_NeverThrowsUnknownAfterDetection ==
    call.op # "none" =>
        /\ reply.kind = "json"
        /\ reply.success \in BOOLEAN
        /\ call.op \notin Operations =>
            /\ ~reply.success
            /\ reply.tag = IF cachedPlatform = NullPlatform
                           THEN "Could not detect platform"
                           ELSE "Unknown operation"

\* an operation outside the enum, called with an empty owner after a clone
C18_Witness ==
    /\ call.op = "invalid-op"
    /\ call.owner = <<>>
    /\ clonedRepos # {}
    /\ reply.kind = "json"
    /\ ~reply.success
    /\ reply.tag = "Unknown operation"

\* the operations that need a clone
OnClone == {"branch", "commit", "push", "pr", "exec", "read", "write", "list"}

C20_InvalidCloneRejected ==
    (call.op = "clone" /\ InvalidIdentifier(call.owner, call.repo) # "valid") =>
        /\ reply.kind = "json"
        /\ ~reply.success
        /\ reply.tag = IF isValidRepoIdentifier(call.owner)
                       THEN "Invalid repo name"
                       ELSE "Invalid owner name"
        /\ commands = {}
        /\ ~tokenAsked
        /\ clonedRepos = call.reposBefore

\* C20: once the platform is detected, a clone whose owner or repo is not a
\* valid identifier fails with "Invalid owner name" (owner checked first) or
\* "Invalid repo name", asks for no token, leaves clonedRepos alone and runs no
\* subprocess but the query of the working directory's remote that platform
\* detection makes.
C20_InvalidCloneRejectedAfterDetection ==
    (call.op = "clone" /\ InvalidIdentifier(call.owner, call.repo) # "valid") =>
        /\ reply.kind = "json"
        /\ ~reply.success
        /\ reply.tag = IF cachedPlatform = NullPlatform
                       THEN "Could not detect platform"
                       ELSE IF isValidRepoIdentifier(call.owner)
                            THEN "Invalid repo name"
                            ELSE "Invalid owner name"
        /\ \A c \in commands : c.site = "git remote get-url origin (cwd)"
        /\ ~tokenAsked
        /\ clonedRepos = call.reposBefore

\* owner and repo both invalid, after an earlier successful clone: the owner
\* is the one reported
C20_Witness ==
    /\ call.op = "clone"
    /\ ~isValidRepoIdentifier(call.owner)
    /\ ~isValidRepoIdentifier(call.repo)
    /\ clonedRepos # {}
    /\ reply.kind = "json"
    /\ reply.tag = "Invalid owner name"
    /\ commands = {}

----------------------------------------------------------------------------
(* readFile, writeFile and listFiles (lines 671-742) on the filesystem: the   *)
(* steps of safeResolvePath above, then the command lines with the paths      *)
(* spliced into them.                                                         *)

\* s.lastIndexOf("/"), counted from 1; 0 when there is none
LastSlash(s) ==
    IF \E i \in 1..Len(s) : s[i] = "/"
    THEN CHOOSE i \in 1..Len(s) : s[i] = "/" /\ \A j \in (i + 1)..Len(s) : s[j] # "/"
    ELSE 0

\* line 701: fullPath.substring(0, fullPath.lastIndexOf("/"))
DirPath(s) == IF LastSlash(s) = 0 THEN <<>> ELSE SubSeq(s, 1, LastSlash(s) - 1)

\* the strings spliced for the names of a command line, with the path
\* resolve(repoPath, filePath) in the place of the one safeResolvePath returned
FileArgsLexical(returned, lexical) ==
    [fullPath |-> PathStr(lexical), targetPath |-> PathStr(lexical),
     dirPath |-> DirPath(PathStr(lexical))]

\* lines 676-681, 695-707, 722-728: fullPath and targetPath are what
\* safeResolvePath returned, dirPath is cut from fullPath
FileArgs(returned, lexical) ==
    [fullPath |-> PathStr(returned), targetPath |-> PathStr(returned),
     dirPath |-> DirPath(PathStr(returned))]

\* a command line together with the paths spliced into it
Bind(c, args) ==
    [site |-> c.site, quoted |-> c.quoted, raw |-> c.raw,
     paths |-> {args[n] : n \in c.quoted \cap DOMAIN args}]

\* "" : the path argument that listFiles takes for no path (line 722)
EmptyPath == [abs |-> FALSE, segs |-> <<>>]

\* the relative paths of the calls: up to MaxSegs segments, absolute or not
FilePaths == [abs : BOOLEAN, segs : SeqsUpTo({"a", "f", "..", "."}, MaxSegs)]

\* One of read, write and list is called on the clone directory "/b/a", which
\* git clone made below tmpdir/sessionID: it is a directory, unless it was
\* removed or closed since.  read and write come with a path (lines 992, 1006);
\* list with "" does not call safeResolvePath.
InitFile ==
    /\ fs \in {f \in FileSystems : f[InnerA] \in {Dir, NoAccessDir, Absent}}
    /\ basePath = InnerA
    /\ relativePath \in FilePaths
    /\ call \in {[op |-> o] : o \in {"read", "write", "list"}}
    /\ call.op \in {"read", "write"} => relativePath # EmptyPath
    /\ pc = IF call.op = "list" /\ relativePath = EmptyPath THEN "nopath" ELSE "start"
    /\ normalizedBase = <<>>
    /\ fullPath = <<>>
    /\ realBase = <<>>
    /\ checkPath = <<>>
    /\ result = Null
    /\ lastErr = "none"
    /\ fsTouched = FALSE
    /\ attacks = 0
    /\ readLoc = Null
    /\ envPlatform = "unset"
    /\ cachedPlatform = GitHub
    /\ clonedRepos = {getRepoKey(SessionID, <<"b">>, <<"a">>)}
    /\ commands = {}
    /\ tokenAsked = FALSE
    /\ reply = NoReply
    /\ IdentIdle
    /\ ScrubIdle
    /\ RemoteIdle
    /\ PlatformIdle
    /\ AuthIdle
    /\ KeyIdle
    /\ CloneIdle

\* the rest of a file operation once safeResolvePath has returned: res is the
\* operation's result in terms of the names spliced, bound here to the paths
Finish(res) ==
    /\ commands' = {Bind(c, FileArgs(result.path, fullPath)) : c \in res.cmds}
    /\ reply' = res.reply
    /\ pc' = "ran"
    /\ UNCHANGED <<fs, basePath, relativePath, normalizedBase, fullPath, realBase,
                   checkPath, result, lastErr, fsTouched, attacks, readLoc>>
    /\ UNCHANGED <<envPlatform, cachedPlatform, clonedRepos, call, tokenAsked>>
    /\ UNCHANGED offFileVars

\* lines 677-686
ReadFile ==
    /\ pc = "done"
    /\ call.op = "read"
    /\ \E done \in BOOLEAN, out \in PlainOutputs :
        Finish(readFile(result.some, done, out))

\* lines 696-714
WriteFile ==
    /\ pc = "done"
    /\ call.op = "write"
    /\ \E done \in BOOLEAN, stderr \in PlainOutputs :
        Finish(writeFile(result.some, done, stderr))

\* lines 722-741 after safeResolvePath(repoPath, subPath)
ListFiles ==
    /\ pc = "done"
    /\ call.op = "list"
    /\ \E done \in BOOLEAN, out \in PlainOutputs :
        Finish(listFiles({"path"}, result.some, done, out))

\* lines 722-741 for no path: resolve(repoPath) is listed
ListClone ==
    /\ pc = "nopath"
    /\ call.op = "list"
    /\ \E done \in BOOLEAN, out \in PlainOutputs :
        LET res == listFiles({}, FALSE, done, out)
            target == resolve(Root, [abs |-> TRUE, segs |-> basePath])
        IN /\ commands' = {Bind(c, FileArgs(target, target)) : c \in res.cmds}
           /\ reply' = res.reply
           /\ pc' = "ran"
    /\ UNCHANGED <<fs, basePath, relativePath, normalizedBase, fullPath, realBase,
                   checkPath, result, lastErr, fsTouched, attacks, readLoc>>
    /\ UNCHANGED <<envPlatform, cachedPlatform, clonedRepos, call, tokenAsked>>
    /\ UNCHANGED offFileVars

NextFile ==
    \/ Start
    \/ ResolveBase
    \/ ResolveFull
    \/ Walk
    \/ ReadFile
    \/ WriteFile
    \/ ListFiles
    \/ ListClone

SpecFile == InitFile /\ [][NextFile]_vars

\* the paths handed to the subprocesses of the call
Handed == UNION {c.paths : c \in commands}

\* C21: read, write and list with a path run no command before
\* safeResolvePath has returned; when it returned null they fail with
\* "Invalid path" and run no command, and when it returned R the paths in the
\* command lines are R and, for write, R's parent directory, and no other.
C21_ValidatedBeforeSubprocess ==
    relativePath # EmptyPath =>
        /\ pc # "ran" => commands = {}
        /\ pc = "ran" =>
            IF ~result.some
            THEN /\ reply = Reply(FALSE, "Invalid path", <<>>)
                 /\ commands = {}
            ELSE /\ commands # {}
                 /\ Handed \subseteq
                        {PathStr(result.path)} \cup
                        (IF call.op = "write"
                         THEN {PathStr(Parent(result.path))} ELSE {})

\* a write through the symlink "/b/a/f" to "/b/a": the real path and its
\* parent are handed on, not the path as it was given
C21_Witness ==
    /\ pc = "ran"
    /\ call.op = "write"
    /\ result.some
    /\ result.path # fullPath
    /\ Handed = {PathStr(result.path), PathStr(Parent(result.path))}

----------------------------------------------------------------------------
(* detectPlatformFromRemote (lines 117-172) on URLs as character sequences    *)

\* longest host name tried, in labels
MaxLabels == 2

Https == <<"h", "t", "t", "p", "s", ":", "/", "/">>
Http == <<"h", "t", "t", "p", ":", "/", "/">>
GitAt == <<"g", "i", "t", "@">>
GithubCom == <<"g", "i", "t", "h", "u", "b", ".", "c", "o", "m">>
GitlabCom == <<"g", "i", "t", "l", "a", "b", ".", "c", "o", "m">>
GithubWord == <<"g", "i", "t", "h", "u", "b">>
GitlabWord == <<"g", "i", "t", "l", "a", "b">>

\* String.prototype.toLowerCase on the letters used here
ToLower(s) ==
    [i \in 1..Len(s) |-> CASE s[i] = "G" -> "g" [] s[i] = "H" -> "h" [] OTHER -> s[i]]

\* the least index from `from` on where s holds c; 0 when there is none
IndexFrom(s, c, from) ==
    IF \E i \in from..Len(s) : s[i] = c
    THEN CHOOSE i \in from..Len(s) : s[i] = c /\ \A j \in from..(i - 1) : s[j] # c
    ELSE 0

NoMatch == [found |-> FALSE, host |-> <<>>]
Match(h) == [found |-> TRUE, host |-> h]

\* line 128: /^git@([^:]+):/
SshMatch(u) ==
    IF ~StartsWith(u, GitAt) THEN NoMatch
    ELSE LET k == IndexFrom(u, ":", 5)
         IN IF k >= 6 THEN Match(SubSeq(u, 5, k - 1)) ELSE NoMatch

\* ([^/]+)\/ from index `from` on
HostFrom(u, from) ==
    LET s == IndexFrom(u, "/", from)
    IN IF s > from THEN Match(SubSeq(u, from, s - 1)) ELSE NoMatch

\* line 135 with the credentials ending at the last "@" before the first "/"
HttpsMatchAuthority(u) ==
    IF ~(StartsWith(u, Https) \/ StartsWith(u, Http)) THEN NoMatch
    ELSE LET start == IF StartsWith(u, Https) THEN Len(Https) + 1 ELSE Len(Http) + 1
             s == IndexFrom(u, "/", start)
             ats == {i \in start..(s - 1) : u[i] = "@"}
         IN IF s = 0 THEN NoMatch
            ELSE IF ats = {} THEN HostFrom(u, start)
            ELSE HostFrom(u, (CHOOSE i \in ats : \A j \in ats : j <= i) + 1)

\* line 135: /^https?:\/\/(?:[^@]+@)?([^/]+)\//.  [^@]+@ runs to the first "@"
\* of the string, over any "/" before it; when the rest does not match after
\* it, the group is left out.
HttpsMatch(u) ==
    IF ~(StartsWith(u, Https) \/ StartsWith(u, Http)) THEN NoMatch
    ELSE LET start == IF StartsWith(u, Https) THEN Len(Https) + 1 ELSE Len(Http) + 1
             a == IndexFrom(u, "@", start)
         IN IF a > start /\ HostFrom(u, a + 1).found
            THEN HostFrom(u, a + 1)
            ELSE HostFrom(u, start)

\* line 144: host.split(":")[0].toLowerCase()
HostWithoutPort(host) ==
    LET k == IndexFrom(host, ":", 1)
    IN ToLower(IF k = 0 THEN host ELSE SubSeq(host, 1, k - 1))

\* lines 146-171
Classify(h) ==
    IF h = GithubCom THEN "github"
    ELSE IF h = GitlabCom THEN "gitlab"
    ELSE IF Includes(h, GithubWord) THEN "github"
    ELSE IF Includes(h, GitlabWord) THEN "gitlab"
    ELSE "github"

NullInfo == [platform |-> "null", host |-> <<>>]

\* lines 117-172
detectPlatformFromRemoteUrl(u) ==
    LET m == IF u = <<>> THEN NoMatch
             ELSE IF SshMatch(u).found THEN SshMatch(u)
             ELSE HttpsMatch(u)
    IN IF ~m.found THEN NullInfo
       ELSE [platform |-> Classify(HostWithoutPort(m.host)), host |-> m.host]

\* the parts remote URLs are made of
Labels == {GithubWord, GitlabWord, <<"G", "i", "t", "H", "u", "b">>, <<"c", "o", "m">>, <<"x">>}

RECURSIVE Dotted(_)
Dotted(ls) ==
    IF Len(ls) = 1 THEN ls[1] ELSE ls[1] \o <<".">> \o Dotted(Tail(ls))

Hosts == {Dotted(ls) : ls \in SeqsUpTo(Labels, MaxLabels) \ {<<>>}}
Schemes == {Https, Http, GitAt, <<"s", "s", "h", ":", "/", "/">>, <<>>}
Credentials == {<<>>, <<"u", ":", "t", "@">>}
Ports == {<<>>, <<":", "8">>}
UrlPaths == {<<>>, <<"/", "o", "/", "r">>, <<":", "o", "/", "r">>, <<"/", "o", "/", "r", "@", "v", "/", "x">>, <<"/">>}

RemoteUrls ==
    {<<>>} \cup
    {s \o c \o h \o p \o t :
        s \in Schemes, c \in Credentials, h \in Hosts, p \in Ports, t \in UrlPaths}

InitRemote ==
    /\ remoteUrl \in RemoteUrls
    /\ detected = [platform |-> "idle", host |-> <<>>]
    /\ PathIdle
    /\ IdentIdle
    /\ ScrubIdle
    /\ ExecIdle
    /\ PlatformIdle
    /\ AuthIdle
    /\ KeyIdle
    /\ CloneIdle

Detect ==
    /\ detected.platform = "idle"
    /\ detected' = detectPlatformFromRemoteUrl(remoteUrl)
    /\ UNCHANGED remoteUrl
    /\ UNCHANGED offRemoteVars

SpecRemote == InitRemote /\ [][Detect]_vars

\* the host part of a URL: after git@ up to the ":", or after http(s):// and
\* any user:token@ up to the first "/"
UrlHost(u) == IF SshMatch(u).found THEN SshMatch(u) ELSE HttpsMatchAuthority(u)

\* C22: a URL in neither form, the empty string included, gives null; any
\* other gives the host part of the URL, port kept and credentials left out,
\* and the platform its host name says (port removed, lower-cased): GitHub for
\* github.com or a name containing github, GitLab for gitlab.com or a name
\* containing gitlab, GitHub for the rest.
C22_ClassifiedByHost ==
    detected.platform # "idle" =>
        LET h == UrlHost(remoteUrl)
            n == HostWithoutPort(h.host)
        IN IF ~h.found THEN detected = NullInfo
           ELSE /\ detected.host = h.host
                /\ detected.platform =
                       IF n = GithubCom \/ Includes(n, GithubWord) THEN "github"
                       ELSE IF n = GitlabCom \/ Includes(n, GitlabWord) THEN "gitlab"
                       ELSE "github"

----------------------------------------------------------------------------
(* detectCurrentRepoPlatform, resetPlatformCache (lines 174-209) and the      *)
(* plugin function of crossRepo (lines 1047-1066)                             *)

\* an environment variable, resp. an option, that is not set
Unset == <<"(unset)">>

\* a value that `if (x)` and `x || y` take for true
Truthy(x) == x # Unset /\ x # <<>>

\* cachedPlatform before the first detection (line 175)
UndefinedInfo == [platform |-> "undefined", host |-> <<>>]

GitlabCorp == <<"g", "l", ".", "c", "o", "r", "p">>
GithubCorp == <<"g", "h", ".", "c", "o", "r", "p">>

\* values of CROSS_REPO_PLATFORM
PlatformSettings ==
    {Unset, <<>>, GithubWord, GitlabWord, <<"G", "i", "t", "H", "u", "b">>, <<"G", "i", "t", "l", "a", "b">>, <<"x">>}

\* what git remote get-url origin prints, <<>> when it fails or prints nothing
OriginUrls ==
    {<<>>, Https \o GitlabCom \o <<"/", "o">>, GitAt \o GithubCorp \o <<":", "o">>,
     <<"s", "s", "h", ":", "/", "/", "x">>}

NoOptions == [platform |-> Unset, gitlabHost |-> Unset, githubHost |-> Unset]

\* lines 184-203 with the environment read again on every call
FreshInfo(env, cached, origin) ==
    IF ToLower(env.platform) = GitlabWord
    THEN [platform |-> "gitlab",
          host |-> IF Truthy(env.gitlabHost) THEN env.gitlabHost ELSE GitlabCom]
    ELSE IF ToLower(env.platform) = GithubWord
    THEN [platform |-> "github",
          host |-> IF Truthy(env.githubHost) THEN env.githubHost ELSE GithubCom]
    ELSE IF origin # <<>> THEN detectPlatformFromRemoteUrl(origin)
    ELSE [platform |-> "github", host |-> GithubCom]

\* lines 179-203: the value detectCurrentRepoPlatform returns and caches
CurrentInfo(env, cached, origin) ==
    IF cached # UndefinedInfo THEN cached
    ELSE IF env.platform # Unset /\ ToLower(env.platform) = GitlabWord
    THEN [platform |-> "gitlab",
          host |-> IF Truthy(env.gitlabHost) THEN env.gitlabHost ELSE GitlabCom]
    ELSE IF env.platform # Unset /\ ToLower(env.platform) = GithubWord
    THEN [platform |-> "github",
          host |-> IF Truthy(env.githubHost) THEN env.githubHost ELSE GithubCom]
    ELSE IF origin # <<>> THEN detectPlatformFromRemoteUrl(origin)
    ELSE [platform |-> "github", host |-> GithubCom]

\* line 195 is reached
AsksRemote(env, cached) ==
    /\ cached = UndefinedInfo
    /\ env.platform = Unset \/ ToLower(env.platform) \notin {GitlabWord, GithubWord}

InitPlatform ==
    /\ processEnv \in [platform : PlatformSettings,
                       gitlabHost : {Unset, <<>>, GitlabCorp},
                       githubHost : {Unset, GithubCorp}]
    /\ cachedInfo = UndefinedInfo
    /\ options = NoOptions
    /\ detectCall = [op |-> "none", cached |-> UndefinedInfo, env |-> processEnv]
    /\ detectResult = UndefinedInfo
    /\ remoteAsked = FALSE
    /\ PathIdle
    /\ IdentIdle
    /\ ScrubIdle
    /\ ExecIdle
    /\ RemoteIdle
    /\ AuthIdle
    /\ KeyIdle
    /\ CloneIdle

\* lines 178-204; execute calls it first (line 884)
DetectCurrentRepoPlatform ==
    \E origin \in IF AsksRemote(processEnv, cachedInfo) THEN OriginUrls ELSE {<<>>} :
        /\ detectCall' = [op |-> "detect", cached |-> cachedInfo, env |-> processEnv]
        /\ detectResult' = CurrentInfo(processEnv, cachedInfo, origin)
        /\ cachedInfo' = CurrentInfo(processEnv, cachedInfo, origin)
        /\ remoteAsked' = AsksRemote(processEnv, cachedInfo)
        /\ UNCHANGED <<processEnv, options>>
        /\ UNCHANGED offPlatformVars

\* lines 207-209
ResetPlatformCache ==
    /\ cachedInfo' = UndefinedInfo
    /\ detectCall' = [op |-> "reset", cached |-> cachedInfo, env |-> processEnv]
    /\ UNCHANGED <<processEnv, options, detectResult, remoteAsked>>
    /\ UNCHANGED offPlatformVars

\* lines 1048-1058: the plugin function of crossRepo(opts)
PluginFunction ==
    \E opts \in [platform : {Unset, GithubWord, GitlabWord},
                 gitlabHost : {Unset, GitlabCorp},
                 githubHost : {Unset, GithubCorp}] :
        /\ processEnv' =
              [platform |-> IF Truthy(opts.platform) THEN opts.platform
                            ELSE processEnv.platform,
               gitlabHost |-> IF Truthy(opts.gitlabHost) THEN opts.gitlabHost
                              ELSE processEnv.gitlabHost,
               githubHost |-> IF Truthy(opts.githubHost) THEN opts.githubHost
                              ELSE processEnv.githubHost]
        /\ options' = opts
        /\ detectCall' = [op |-> "plugin", cached |-> cachedInfo, env |-> processEnv]
        /\ UNCHANGED <<cachedInfo, detectResult, remoteAsked>>
        /\ UNCHANGED offPlatformVars

NextPlatform ==
    \/ DetectCurrentRepoPlatform
    \/ ResetPlatformCache
    \/ PluginFunction

SpecPlatform == InitPlatform /\ [][NextPlatform]_vars

\* {platform, X_HOST or the public host}
Configured(platform, host, public) ==
    [platform |-> platform, host |-> IF host \in {Unset, <<>>} THEN public ELSE host]

\* C23: a call of detectCurrentRepoPlatform that meets an empty cache and
\* CROSS_REPO_PLATFORM gitlab (github), in any case of letters, returns
\* {gitlab, GITLAB_HOST or gitlab.com} ({github, GITHUB_HOST or github.com})
\* without running git remote; what a call returns is in the cache after it,
\* a call that meets a filled cache returns that value and leaves it, the
\* plugin function leaves the cache alone and resetPlatformCache empties it.
C23_EnvOverrideCached ==
    /\ detectCall.op = "detect" =>
        /\ cachedInfo = detectResult
        /\ (detectCall.cached = UndefinedInfo /\
            detectCall.env.platform \in {GitlabWord, <<"G", "i", "t", "l", "a", "b">>}) =>
                /\ detectResult = Configured("gitlab", detectCall.env.gitlabHost, GitlabCom)
                /\ ~remoteAsked
        /\ (detectCall.cached = UndefinedInfo /\
            detectCall.env.platform \in {GithubWord, <<"G", "i", "t", "H", "u", "b">>}) =>
                /\ detectResult = Configured("github", detectCall.env.githubHost, GithubCom)
                /\ ~remoteAsked
        /\ detectCall.cached # UndefinedInfo =>
                /\ detectResult = detectCall.cached
                /\ ~remoteAsked
    /\ detectCall.op = "plugin" => cachedInfo = detectCall.cached
    /\ detectCall.op = "reset" => cachedInfo = UndefinedInfo

\* CROSS_REPO_PLATFORM=Gitlab with GITLAB_HOST set was cached; the plugin
\* function then set the platform to github, and the next call still returned
\* the cached value
C23_Witness ==
    /\ detectCall.op = "detect"
    /\ detectCall.cached = [platform |-> "gitlab", host |-> GitlabCorp]
    /\ processEnv.platform = GithubWord
    /\ detectResult = [platform |-> "gitlab", host |-> GitlabCorp]
    /\ ~remoteAsked

\* C24: once the plugin function of crossRepo(options) has run with a
\* platform, every later detection, the one execute starts with, gives that
\* platform and, when the options name a host for it, that host, whatever was
\* detected before.
C24_OptionsOverride ==
    (detectCall.op = "detect" /\ options.platform # Unset) =>
        /\ detectResult.platform =
               (IF options.platform = GitlabWord THEN "gitlab" ELSE "github")
        /\ (options.platform = GitlabWord /\ options.gitlabHost # Unset) =>
               detectResult.host = options.gitlabHost
        /\ (options.platform = GithubWord /\ options.githubHost # Unset) =>
               detectResult.host = options.githubHost

----------------------------------------------------------------------------
(* getTargetRepoToken (lines 382-464) with detectExecutionContext (263-317),  *)
(* the CLI probes (245-261, 319-327) and getTokenViaOIDC (329-380)            *)

\* what getTokenViaOIDC comes to: a token, or one of its errors (lines 343,
\* 350-353, 367-369, 371, 378)
OidcOutcomes ==
    {"token", "Failed to get OIDC token", "OIDC_BASE_URL environment variable not set",
     "Authentication failed", "Failed to get installation token",
     "OIDC token exchange failed"}

Token(via) == [ok |-> TRUE, via |-> via, error |-> ""]
AuthError(msg) == [ok |-> FALSE, via |-> "none", error |-> msg]

\* lines 273, 284, 299-300, 314-315: context.hasToken
HasToken(env, type, platform) ==
    IF type = "gitlab-ci" THEN env.glToken \/ env.ciJobToken
    ELSE IF platform = "github" THEN env.ghToken
    ELSE env.glToken

\* lines 266-316: context.type
ContextType(env, platform) ==
    IF env.githubActions /\ platform = "github" THEN "github-actions"
    ELSE IF env.gitlabCI /\ platform = "gitlab" THEN "gitlab-ci"
    ELSE IF env.interactive THEN "interactive"
    ELSE "non-interactive"

\* lines 245-261: the CLI is probed once per process
HasCli(cache, platform, probe) ==
    IF cache[platform] # "null" THEN cache[platform] = "true" ELSE probe

\* lines 389-402
GitHubActionsToken(env, oidc) ==
    IF env.oidcVars
    THEN IF oidc = "token" THEN Token("oidc") ELSE AuthError(oidc)
    ELSE IF env.ghToken THEN Token("env")
    ELSE AuthError("In GitHub Actions but no authentication available")

\* lines 382-464
getTargetRepoToken(env, cache, platform, oidc, probe, cliToken) ==
    LET type == ContextType(env, platform)
    IN IF type = "github-actions" THEN GitHubActionsToken(env, oidc)
       ELSE IF type = "gitlab-ci"
       THEN IF HasToken(env, type, platform) THEN Token("env")
            ELSE AuthError("In GitLab CI but no authentication available")
       ELSE IF HasCli(cache, platform, probe) /\ cliToken THEN Token("cli")
       ELSE IF HasToken(env, type, platform) THEN Token("env")
       ELSE AuthError("No authentication available")

\* the process starts in some environment, with no CLI probed yet
InitAuth ==
    /\ authEnv \in [githubActions : BOOLEAN, gitlabCI : BOOLEAN, oidcVars : BOOLEAN,
                    ghToken : BOOLEAN, glToken : BOOLEAN, ciJobToken : BOOLEAN,
                    interactive : BOOLEAN]
    /\ cliCache = [github |-> "null", gitlab |-> "null"]
    /\ authCall = [op |-> "none", platform |-> "github", oidc |-> "token",
                   probed |-> FALSE]
    /\ tokenResult = AuthError("")
    /\ PathIdle
    /\ IdentIdle
    /\ ScrubIdle
    /\ ExecIdle
    /\ RemoteIdle
    /\ PlatformIdle
    /\ KeyIdle
    /\ CloneIdle

\* one call of getTargetRepoToken, by cloneRepo (line 497); the answers of
\* the OIDC endpoints and of the CLI are the environment's
GetTargetRepoToken ==
    \E platform \in {"github", "gitlab"} :
        LET type == ContextType(authEnv, platform)
            oidcRuns == type = "github-actions" /\ authEnv.oidcVars
            probes == type \in {"interactive", "non-interactive"}
        IN \E oidc \in Env(oidcRuns, OidcOutcomes) :
            \E probe \in Env(probes /\ cliCache[platform] = "null", BOOLEAN) :
                \E cliToken \in Env(probes /\ HasCli(cliCache, platform, probe), BOOLEAN) :
                    /\ tokenResult' = getTargetRepoToken(authEnv, cliCache, platform,
                                                         oidc, probe, cliToken)
                    /\ cliCache' = IF probes /\ cliCache[platform] = "null"
                                   THEN [cliCache EXCEPT ![platform] =
                                            IF probe THEN "true" ELSE "false"]
                                   ELSE cliCache
                    /\ authCall' = [op |-> "token", platform |-> platform,
                                    oidc |-> IF oidcRuns THEN oidc ELSE "not run",
                                    probed |-> probes /\ cliCache[platform] = "null"]
                    /\ UNCHANGED authEnv
                    /\ UNCHANGED offAuthVars

SpecAuth == InitAuth /\ [][GetTargetRepoToken]_vars

\* C25: in GitHub Actions with platform GitHub, the OIDC exchange is used when
\* the request variables are present, a token comes back whenever the
\* exchange or GH_TOKEN/GITHUB_TOKEN yields one, and the error that names
\* GitHub Actions comes only when neither does.
C25_OidcThenEnvToken ==
    (authCall.op = "token" /\ authEnv.githubActions /\ authCall.platform = "github") =>
        /\ authEnv.oidcVars <=> authCall.oidc # "not run"
        /\ (authCall.oidc = "token" \/ authEnv.ghToken) => tokenResult.ok
        /\ tokenResult.error = "In GitHub Actions but no authentication available" =>
               (authCall.oidc # "token" /\ ~authEnv.ghToken)

----------------------------------------------------------------------------
(* The keys of clonedRepos (lines 100-113, 892-903): a clone registers its    *)
(* key, an operation looks its own key up.                                    *)

\* longest owner or repo tried, in parts
MaxParts == 2

\* owners and repos are made of the letter "a" and of "/a"
NameParts == {<<"a">>, <<"/", "a">>}
Names == {Concat(ps) : ps \in SeqsUpTo(NameParts, MaxParts)}

\* ctx.sessionID: two sessions, and one whose ID holds a "/"
SessionIDs == {<<"s">>, <<"t">>, <<"s", "/", "a">>}

Triple(s, o, r) == [sessionID |-> s, owner |-> o, repo |-> r]

\* a clone succeeded for tripleA, so its owner and repo are valid identifiers
\* (lines 479-484); the later operation comes with any strings (lines 902-1024
\* do not validate them)
InitKey ==
    /\ tripleA \in {Triple(s, o, r) : s \in SessionIDs,
                    o \in {n \in Names : isValidRepoIdentifier(n)},
                    r \in {n \in Names : isValidRepoIdentifier(n)}}
    /\ tripleB \in {Triple(s, o, r) : s \in SessionIDs, o \in Names, r \in Names}
    /\ keyA = <<>>
    /\ keyB = <<>>
    /\ found = "idle"
    /\ PathIdle
    /\ IdentIdle
    /\ ScrubIdle
    /\ ExecIdle
    /\ RemoteIdle
    /\ PlatformIdle
    /\ AuthIdle
    /\ CloneIdle

\* lines 486 and 532 for the clone, 892 and 903 for the operation
LookUp ==
    /\ found = "idle"
    /\ keyA' = getRepoKey(tripleA.sessionID, tripleA.owner, tripleA.repo)
    /\ keyB' = getRepoKey(tripleB.sessionID, tripleB.owner, tripleB.repo)
    /\ found' = IF getRepoKey(tripleB.sessionID, tripleB.owner, tripleB.repo) =
                   getRepoKey(tripleA.sessionID, tripleA.owner, tripleA.repo)
                THEN "true" ELSE "false"
    /\ UNCHANGED <<tripleA, tripleB>>
    /\ UNCHANGED offKeyVars

SpecKey == InitKey /\ [][LookUp]_vars

\* C26 as stated: an operation never finds a clone registered under another
\* session, and two different (session, owner, repo) triples never have the
\* same key, whatever the session IDs, owners and repos are.
C26_KeysSeparateSessions ==
    found # "idle" =>
        /\ found = "true" => tripleB.sessionID = tripleA.sessionID
        /\ tripleA # tripleB => keyA # keyB

----------------------------------------------------------------------------
(* cloneRepo (lines 471-540) step by step: every await hands control to the   *)
(* other invocations of the process.  Token acquisition is reduced to its     *)
(* outcome here, and execute's platform detection is left to the            *)
(* specification of execute above.                                            *)

\* invocations one caller makes, one after the other
MaxCalls == 1

\* the callers whose invocations may overlap
Callers == {1, 2}

\* os.tmpdir()
TmpDir == <<"/", "t">>

\* lines 106-108
getClonePath(sessionID, owner, repo) ==
    TmpDir \o <<"/">> \o sessionID \o <<"/">> \o owner \o <<"-">> \o repo

\* the owner and repo arguments of the invocations: three valid pairs, two of
\* them with the same owner-repo string, and a pair with an invalid repo
CloneArgs ==
    {[owner |-> <<"a">>, repo |-> <<"a">>],
     [owner |-> <<"a">>, repo |-> <<"-", "a">>],
     [owner |-> <<"a", "-">>, repo |-> <<"a">>],
     [owner |-> <<"a">>, repo |-> <<"/">>]}

KeyOf(a) == getRepoKey(SessionID, a.owner, a.repo)
PathOf(a) == getClonePath(SessionID, a.owner, a.repo)

CloneKeys == {KeyOf(a) : a \in CloneArgs}
ClonePaths == {PathOf(a) : a \in CloneArgs}

NoEntry == [path |-> <<>>, defaultBranch |-> "none"]
NoTree == [owner |-> <<>>, repo |-> <<>>]

\* the value cloneRepo resolves to
Pending == [success |-> FALSE, tag |-> "pending", path |-> <<>>, defaultBranch |-> "none"]
Failed(tag) == [success |-> FALSE, tag |-> tag, path |-> <<>>, defaultBranch |-> "none"]
Succeeded(path, branch) ==
    [success |-> TRUE, tag |-> "", path |-> path, defaultBranch |-> branch]

Idle ==
    [pc |-> "idle", args |-> [owner |-> <<>>, repo |-> <<>>], branch |-> FALSE,
     calls |-> 0, ran |-> {}, asked |-> FALSE, met |-> FALSE, head |-> "none",
     result |-> Pending]

\* line 488 with the has-check skipped when a branch is asked for
HasUnlessBranch(map, key, branch) == map[key] # NoEntry /\ ~branch

\* line 488: clonedRepos.has(repoKey)
Has(map, key, branch) == map[key] # NoEntry

InitClone ==
    /\ cloneMap = [k \in CloneKeys |-> NoEntry]
    /\ disk = [d \in ClonePaths |-> NoTree]
    /\ inv = [c \in Callers |-> Idle]
    /\ cloneRuns = [k \in CloneKeys |-> 0]
    /\ rmAfterSet = FALSE
    /\ PathIdle
    /\ IdentIdle
    /\ ScrubIdle
    /\ ExecIdle
    /\ RemoteIdle
    /\ PlatformIdle
    /\ AuthIdle
    /\ KeyIdle

\* an invocation goes on: its position, what it ran, what it returns
Goes(c, at, cmds, res) ==
    inv' = [inv EXCEPT ![c].pc = at, ![c].ran = inv[c].ran \cup cmds,
                       ![c].result = res]

\* lines 479-497: validation and the has-check, up to the first await
Enter(c) ==
    /\ inv[c].pc \in {"idle", "done"}
    /\ inv[c].calls < MaxCalls
    /\ \E a \in CloneArgs, branch \in BOOLEAN :
        LET key == KeyOf(a)
            invalid == InvalidIdentifier(a.owner, a.repo)
        IN inv' = [inv EXCEPT ![c] =
              [pc |-> IF invalid # "valid" \/ Has(cloneMap, key, branch)
                      THEN "done" ELSE "token",
               args |-> a, branch |-> branch, calls |-> inv[c].calls + 1,
               ran |-> {}, asked |-> FALSE,
               met |-> cloneMap[key] # NoEntry,
               head |-> "none",
               result |-> IF invalid # "valid" THEN Failed(invalid)
                          ELSE IF Has(cloneMap, key, branch)
                          THEN Succeeded(cloneMap[key].path, cloneMap[key].defaultBranch)
                          ELSE Pending]]
    /\ UNCHANGED <<cloneMap, disk, cloneRuns, rmAfterSet>>
    /\ UNCHANGED offCloneVars

\* Enter for callers that wait for one another
EnterAlone(c) ==
    /\ \A d \in Callers \ {c} : inv[d].pc \in {"idle", "done"}
    /\ Enter(c)

\* lines 497-500
AcquireToken(c) ==
    /\ inv[c].pc = "token"
    /\ \E got \in BOOLEAN :
        inv' = [inv EXCEPT ![c].asked = TRUE,
                           ![c].pc = IF got THEN "mkdir" ELSE "done",
                           ![c].result = IF got THEN Pending
                                         ELSE Failed("No authentication available")]
    /\ UNCHANGED <<cloneMap, disk, cloneRuns, rmAfterSet>>
    /\ UNCHANGED offCloneVars

\* lines 502-503
MakeSessionDir(c) ==
    /\ inv[c].pc = "mkdir"
    /\ Goes(c, "rm", {MkdirSessionCmd}, Pending)
    /\ UNCHANGED <<cloneMap, disk, cloneRuns, rmAfterSet>>
    /\ UNCHANGED offCloneVars

\* lines 505-506: rm -rf clonePath
RemoveCloneDir(c) ==
    /\ inv[c].pc = "rm"
    /\ disk' = [disk EXCEPT ![PathOf(inv[c].args)] = NoTree]
    /\ rmAfterSet' = (rmAfterSet \/ cloneMap[KeyOf(inv[c].args)] # NoEntry)
    /\ Goes(c, "clone", {RmCloneCmd}, Pending)
    /\ UNCHANGED <<cloneMap, cloneRuns>>
    /\ UNCHANGED offCloneVars

\* lines 508-515: git clone exits with 0 only into a directory that is not
\* there or empty
GitClone(c) ==
    /\ inv[c].pc = "clone"
    /\ LET a == inv[c].args
           given == IF inv[c].branch THEN {"branch"} ELSE {}
       IN \E ok \in IF disk[PathOf(a)] = NoTree THEN BOOLEAN ELSE {FALSE} :
            IF ok
            THEN /\ disk' = [disk EXCEPT ![PathOf(a)] = a]
                 /\ cloneRuns' = [cloneRuns EXCEPT ![KeyOf(a)] = cloneRuns[KeyOf(a)] + 1]
                 /\ Goes(c, "configure", {GitCloneCmd(given)}, Pending)
            ELSE /\ Goes(c, "done", {GitCloneCmd(given)}, Failed("Clone failed"))
                 /\ UNCHANGED <<disk, cloneRuns>>
    /\ UNCHANGED <<cloneMap, rmAfterSet>>
    /\ UNCHANGED offCloneVars

\* lines 517-530: the branch checked out, "main" when rev-parse prints
\* nothing, and the two git config runs
Configure(c) ==
    /\ inv[c].pc = "configure"
    /\ \E head \in IF disk[PathOf(inv[c].args)] = NoTree THEN {"main"}
                                                          ELSE {"main", "dev"} :
        inv' = [inv EXCEPT ![c].pc = "set", ![c].head = head,
                           ![c].ran = inv[c].ran \cup {DefaultBranchCmd} \cup ConfigCmds]
    /\ UNCHANGED <<cloneMap, disk, cloneRuns, rmAfterSet>>
    /\ UNCHANGED offCloneVars

\* lines 532-539
Register(c) ==
    /\ inv[c].pc = "set"
    /\ cloneMap' = [cloneMap EXCEPT ![KeyOf(inv[c].args)] =
                       [path |-> PathOf(inv[c].args), defaultBranch |-> inv[c].head]]
    /\ Goes(c, "done", {}, Succeeded(PathOf(inv[c].args), inv[c].head))
    /\ UNCHANGED <<disk, cloneRuns, rmAfterSet>>
    /\ UNCHANGED offCloneVars

\* the steps after the has-check
CloneSteps ==
    \E c \in Callers :
        \/ AcquireToken(c)
        \/ MakeSessionDir(c)
        \/ RemoveCloneDir(c)
        \/ GitClone(c)
        \/ Configure(c)
        \/ Register(c)

\* invocations that overlap: execute is async and nothing serialises its calls
NextClone == (\E c \in Callers : Enter(c)) \/ CloneSteps

SpecClone == InitClone /\ [][NextClone]_vars

\* invocations one after the other: a caller starts when no other is under way
NextCloneSeq == (\E c \in Callers : EnterAlone(c)) \/ CloneSteps

SpecCloneSeq == InitClone /\ [][NextCloneSeq]_vars

\* C27: within one session the directories recorded for two repositories
\* differ, and the directory recorded for a repository holds that repository's
\* working tree: no clone of another one removed or replaced it.
C27_DistinctCloneDirs ==
    /\ \A k1, k2 \in CloneKeys :
          (k1 # k2 /\ cloneMap[k1] # NoEntry /\ cloneMap[k2] # NoEntry) =>
              cloneMap[k1].path # cloneMap[k2].path
    /\ \A k \in CloneKeys :
          cloneMap[k] # NoEntry =>
              /\ disk[cloneMap[k].path] # NoTree
              /\ KeyOf(disk[cloneMap[k].path]) = k

\* every entry of clonedRepos has the path tmpdir/sessionID/owner-repo of a
\* valid owner and repo with that key
EntriesWellFormed ==
    \A k \in CloneKeys :
        cloneMap[k] # NoEntry =>
            \E a \in CloneArgs :
                /\ InvalidIdentifier(a.owner, a.repo) = "valid"
                /\ KeyOf(a) = k
                /\ cloneMap[k].path = getClonePath(SessionID, a.owner, a.repo)

\* a step changes clonedRepos only by adding an entry for a key that had none,
\* made by an invocation whose git clone exited with success and that returns
\* success; an invocation that returns a failure, and every step on a key
\* that has an entry, leaves the map as it was
OnlySuccessfulCloneAdds ==
    /\ \A k \in CloneKeys :
          cloneMap[k] # NoEntry => cloneMap'[k] = cloneMap[k]
    /\ cloneMap' # cloneMap =>
          \E c \in Callers :
              /\ inv'[c].pc = "done"
              /\ inv'[c].result.success
              /\ \E given \in SUBSET {"branch"} : GitCloneCmd(given) \in inv'[c].ran
              /\ \A k \in CloneKeys : cloneMap'[k] # cloneMap[k] => k = KeyOf(inv[c].args)
    /\ \A c \in Callers :
          (inv[c].pc # "done" /\ inv'[c].pc = "done" /\ ~inv'[c].result.success) =>
              cloneMap' = cloneMap

\* C28: clonedRepos changes only by a successful clone: an entry is added only
\* after git clone exited with success, a failed clone leaves the map
\* unchanged, no step removes or overwrites an entry, and every entry's path
\* is tmpdir/sessionID/owner-repo for a valid owner and repo.
C28_OnlySuccessfulCloneChangesMap ==
    []EntriesWellFormed /\ [][OnlySuccessfulCloneAdds]_vars

\* an invocation that met its key in clonedRepos is over at once: it returned
\* success, asked for no token and ran no subprocess
MetIsOver ==
    \A c \in Callers :
        inv[c].met =>
            /\ inv[c].pc = "done"
            /\ inv[c].result.success
            /\ inv[c].result.path = PathOf(inv[c].args)
            /\ ~inv[c].asked
            /\ inv[c].ran = {}

\* the step of an invocation that meets its key in clonedRepos returns the
\* stored path and defaultBranch and leaves clonedRepos as it was
MetReturnsStored ==
    \A c \in Callers :
        (inv'[c].calls # inv[c].calls /\ cloneMap[KeyOf(inv'[c].args)] # NoEntry) =>
            /\ inv'[c].result =
                   Succeeded(cloneMap[KeyOf(inv'[c].args)].path,
                             cloneMap[KeyOf(inv'[c].args)].defaultBranch)
            /\ inv'[c].pc = "done"
            /\ cloneMap' = cloneMap
            /\ disk' = disk

\* C29: a clone for a key already in clonedRepos returns success with the
\* stored path and defaultBranch, acquires no token, runs no subprocess and
\* leaves clonedRepos unchanged, also when a branch argument is given.
C29_CloneIdempotent ==
    []MetIsOver /\ [][MetReturnsStored]_vars

\* an invocation with a branch argument met its key and returned the stored
\* entry
C29_Witness ==
    \E c \in Callers :
        /\ inv[c].met
        /\ inv[c].branch
        /\ inv[c].pc = "done"
        /\ inv[c].result =
               Succeeded(PathOf(inv[c].args), cloneMap[KeyOf(inv[c].args)].defaultBranch)
        /\ inv[c].result.defaultBranch = "dev"

\* C30: for one key, git clone succeeds at most once, and rm -rf never runs
\* on the clone directory of a key that is registered in clonedRepos.
C30_CloneOncePerKey ==
    /\ \A k \in CloneKeys : cloneRuns[k] <= 1
    /\ ~rmAfterSet

====
